---------------------------- MODULE Spec2Model ----------------------------
(***************************************************************************)
(* A model of kustomap's discovery pipeline:                               *)
(*   - the branch/path resolver   (internal/repository/resolver.go),       *)
(*   - the Git crawler            (src/services/DependencyResolver.ts,     *)
(*                                 class GitCrawler),                      *)
(*   - the dependency graph builder and the cycle detector                 *)
(*                                (same file, class DependencyResolver).   *)
(*                                                                         *)
(* Strings.  A Go string of the resolver is a sequence of characters.  A   *)
(* path or URL of the TypeScript code is a record of its scheme ("" for a  *)
(* relative path), its "/"-separated segments (what split('/') returns,    *)
(* so "a//b" is <<"a", "", "b">> and the empty string is <<"">>) and its   *)
(* query string, which carries at most a ref parameter, raw or             *)
(* percent-encoded.                                                        *)
(***************************************************************************)
EXTENDS Integers, Sequences, FiniteSets, TLC

VARIABLES
    \* ---- resolver.go ----
    branches,      \* the []string handed to findLongestMatch / returned by the RefLister
    urlPath,       \* the ambiguous path
    listerErr,     \* whether the installed RefLister returns an error
    rpc,           \* "init" | "done"
    rvia,          \* which entry point ran: "none" | "find" | "resolve"
    rout,          \* the (branch, path, error) triple returned
    testRefLister, \* "set" when a RefLister is installed, else "nil"
    repoInfo,      \* repoInfo.Type
    token,         \* the token argument
    tags,          \* the tag names of the repository (branches holds its branch names)
    apiErr,        \* which calls of the provider's API fail
    handed         \* the names handed to findLongestMatch by ResolveBranchAndPath

VARIABLES
    \* ---- DependencyResolver.detectCycles ----
    cEdges,        \* graph.edges: the ordered list of [source, target] pairs
    cycles,        \* the string[][] detectCycles returned
    cpc            \* "init" | "done"

VARIABLES
    \* ---- GitCrawler ----
    crawlState,    \* "idle" | "fetch" | "run" | "done" | "rejected"
    overlayUrl,    \* the URL crawlFromOverlay was called with
    nodeCounter,   \* this.nodeCounter
    visited,       \* this.visited: normalized URL -> node, in insertion order
    nodes,         \* the node list of the crawl
    objs,          \* the node objects, by reference
    stack,         \* the crawlKustomization calls in progress, the root first
    pending,       \* the crawlKustomization call that awaits its fetch
    fetchLog,      \* the requests issued, in order
    calls,         \* the crawlKustomization calls that created or returned a node
    files,         \* the kustomization documents of the repositories read so far
    refsUsed       \* the number of entries in them

VARIABLES
    \* ---- a second crawlFromOverlay call on the same GitCrawler ----
    parked,        \* the crawl that is not running: its state, URL, list, calls in progress
    crawls         \* which of the two crawls runs, and whether they overlapped

VARIABLES
    \* ---- DependencyResolver.buildGraph ----
    graph,         \* the KustomizeGraph returned
    edgeCounter,   \* this.edgeCounter
    typeBefore,    \* the node types when the type correction started
    rebuilt        \* the graph of a second buildGraph call on the same instance

VARIABLES
    \* ---- parser.ParseReference ----
    refInput,      \* the reference string handed to ParseReference, and its parts
    parsed,        \* the KustomizeReference (or error) it returned
    ppc            \* "init" | "done"

VARIABLES
    \* ---- resolvePath and joinPaths on their own ----
    pathIn,        \* the base path and the relative reference
    pathOut,       \* what joinPaths and resolvePath return for them
    jpc            \* "init" | "done"

VARIABLES
    \* ---- crawlKustomization's handling of its URL, on its own ----
    urlIn,         \* the URL the first call is made with
    urlKey,        \* the normalized locator (the cache key) of the last call
    urlFile,       \* the repository file the first call requests
    upc            \* "init" | "once" | "twice"

resolverVars == <<branches, urlPath, listerErr, rpc, rvia, rout, testRefLister,
                  repoInfo, token, tags, apiErr, handed>>

parserVars == <<refInput, parsed, ppc>>

cycleVars == <<cEdges, cycles, cpc>>

buildVars == <<graph, edgeCounter, typeBefore, rebuilt>>

crawlVars == <<crawlState, overlayUrl, nodeCounter, visited, nodes, objs, stack,
               pending, fetchLog, calls, files, refsUsed, buildVars>>

pathVars == <<pathIn, pathOut, jpc>>

urlVars == <<urlIn, urlKey, urlFile, upc>>

twoVars == <<parked, crawls>>

vars == <<resolverVars, cycleVars, crawlVars, parserVars, pathVars, urlVars, twoVars>>

(***************************************************************************)
(* Bounds                                                                  *)
(***************************************************************************)
MaxNameLen == 2     \* characters of a branch/tag name
MaxPathLen == 4     \* characters of the ambiguous path
MaxBranches == 2    \* names in the list
MaxGraphNodes == 3  \* nodes of a graph handed to detectCycles
MaxGraphEdges == 4  \* edges of a graph handed to detectCycles
MaxRefs == 2        \* entries in all the kustomization files of the repositories
MaxSharedRefs == 1  \* the same, when two crawls run on one GitCrawler
MaxBuildRefs == 3   \* entries in all the documents of a node list handed to buildGraph
MaxRefNames == 3    \* branches, and tags, of a repository whose names the API lists
MaxPathSegs == 3    \* segments of a path handed to joinPaths and resolvePath
MaxUrlSegs == 6     \* segments after host/owner/repo of a URL handed to normalizeUrl
PerPage == 2        \* names on a result page of the API (100 in the code)

(***************************************************************************)
(* Generic helpers                                                         *)
(***************************************************************************)
Range(s) == {s[i] : i \in 1..Len(s)}

SeqsUpTo(S, n) == UNION {[1..k -> S] : k \in 0..n}

Min(a, b) == IF a < b THEN a ELSE b

(***************************************************************************)
(* resolver.go                                                             *)
(***************************************************************************)
Chars == {"a", "/"}

\* strings.HasPrefix
HasPrefix(s, p) == Len(p) <= Len(s) /\ SubSeq(s, 1, Len(p)) = p

\* strings.TrimPrefix
TrimPrefix(s, p) == IF HasPrefix(s, p) THEN SubSeq(s, Len(p) + 1, Len(s)) ELSE s

RECURSIVE TrimLeftSlash(_)
TrimLeftSlash(s) ==
    IF s # <<>> /\ Head(s) = "/" THEN TrimLeftSlash(Tail(s)) ELSE s

RECURSIVE TrimRightSlash(_)
TrimRightSlash(s) ==
    IF s # <<>> /\ s[Len(s)] = "/"
    THEN TrimRightSlash(SubSeq(s, 1, Len(s) - 1))
    ELSE s

\* strings.Trim(s, "/")
TrimSlashes(s) == TrimRightSlash(TrimLeftSlash(s))

\* A plausible slip: the first matching name wins, whatever its length.
RECURSIVE FirstMatchLoop(_, _, _, _)
FirstMatchLoop(bs, i, path, longestMatch) ==
    IF i > Len(bs) THEN longestMatch
    ELSE IF HasPrefix(path, bs[i]) /\ bs[i] # <<>>
         THEN bs[i]
         ELSE FirstMatchLoop(bs, i + 1, path, longestMatch)

\* The for loop of findLongestMatch: longestMatchLen is len(longestMatch)
\* throughout (both start at zero and are assigned together).
RECURSIVE LongestLoop(_, _, _, _)
LongestLoop(bs, i, path, longestMatch) ==
    IF i > Len(bs) THEN longestMatch
    ELSE IF HasPrefix(path, bs[i]) /\ Len(bs[i]) > Len(longestMatch)
         THEN LongestLoop(bs, i + 1, path, bs[i])
         ELSE LongestLoop(bs, i + 1, path, longestMatch)

\* the error values: one text per fmt.Errorf of the file, and the error of
\* the RefLister of the tests
NoMatchError == "no matching branch found in path"

ListBranchesError == "failed to list branches"

ClientError == "failed to create GitLab client"

UnsupportedError == "unsupported repository type"

ListerError == "API rate limit"

\* return "", "", err
Failure(msg) == [branch |-> <<>>, path |-> <<>>, err |-> TRUE, msg |-> msg]

ResolveErr == Failure(NoMatchError)

\* A plausible slip: the "no match" test is dropped.
findLongestMatchNoError(bs, p) ==
    LET path == TrimSlashes(p)
        longestMatch == LongestLoop(bs, 1, path, <<>>)
    IN  [branch |-> longestMatch,
         path   |-> TrimPrefix(TrimPrefix(path, longestMatch), <<"/">>),
         err    |-> FALSE,
         msg    |-> ""]

findLongestMatch(bs, p) ==
    LET path == TrimSlashes(p)
        longestMatch == LongestLoop(bs, 1, path, <<>>)
    IN  IF longestMatch = <<>>
        THEN ResolveErr
        ELSE [branch |-> longestMatch,
              path   |-> TrimPrefix(TrimPrefix(path, longestMatch), <<"/">>),
              err    |-> FALSE,
              msg    |-> ""]

\* findLongestMatch was not called
NotHanded == [called |-> FALSE, names |-> <<>>]

\* return findLongestMatch(names, urlPath)
ReturnMatch(names, p) ==
    [out |-> findLongestMatch(names, p), handed |-> [called |-> TRUE, names |-> names]]

\* return "", "", err
ReturnError(msg) == [out |-> Failure(msg), handed |-> NotHanded]

\* The listing API: page k of a list holds its names (k-1)*PerPage+1 ..
\* k*PerPage, and resp.NextPage is k+1 while names are left, else 0.
Page(list, k) == SubSeq(list, (k - 1) * PerPage + 1, Min(k * PerPage, Len(list)))

NextPage(list, k) == IF k * PerPage < Len(list) THEN k + 1 ELSE 0

\* no call of the API fails
NoApiErr == [client |-> FALSE, branchesAt |-> 0, tags |-> FALSE]

\* the for loop over the branch pages; errAt is the page whose request fails
RECURSIVE ListAllBranches(_, _, _, _)
ListAllBranches(list, page, errAt, allBranches) ==
    IF errAt = page THEN [err |-> TRUE, names |-> <<>>]
    ELSE IF NextPage(list, page) = 0
         THEN [err |-> FALSE, names |-> allBranches \o Page(list, page)]
         ELSE ListAllBranches(list, NextPage(list, page), errAt,
                              allBranches \o Page(list, page))

\* "Also list tags": one request, whose error is dropped
ListTags(list, page, err) == IF err THEN <<>> ELSE Page(list, page)

resolveGitHubBranchAndPath(bs, ts, api, p) ==
    LET listed == ListAllBranches(bs, 1, api.branchesAt, <<>>)
    IN  IF listed.err THEN ReturnError(ListBranchesError)
        ELSE ReturnMatch(listed.names \o ListTags(ts, 1, api.tags), p)

resolveGitLabBranchAndPath(bs, ts, api, p) ==
    LET listed == ListAllBranches(bs, 1, api.branchesAt, <<>>)
    IN  IF api.client THEN ReturnError(ClientError)
        ELSE IF listed.err THEN ReturnError(ListBranchesError)
        ELSE ReturnMatch(listed.names \o ListTags(ts, 1, api.tags), p)

\* a dispatcher that wraps the error of the RefLister
ResolveBranchAndPathWrapped(lister, err, type, tok, bs, ts, api, p) ==
    IF lister = "set"
    THEN IF err THEN ReturnError(ListBranchesError) ELSE ReturnMatch(bs, p)
    ELSE CASE type = "github" -> resolveGitHubBranchAndPath(bs, ts, api, p)
           [] type = "gitlab" -> resolveGitLabBranchAndPath(bs, ts, api, p)
           [] OTHER -> ReturnError(UnsupportedError)

\* ResolveBranchAndPath: the installed RefLister when there is one, else the
\* resolver of the repository type.  The token only selects the client.
ResolveBranchAndPath(lister, err, type, tok, bs, ts, api, p) ==
    IF lister = "set"
    THEN IF err THEN ReturnError(ListerError) ELSE ReturnMatch(bs, p)
    ELSE CASE type = "github" -> resolveGitHubBranchAndPath(bs, ts, api, p)
           [] type = "gitlab" -> resolveGitLabBranchAndPath(bs, ts, api, p)
           [] OTHER -> ReturnError(UnsupportedError)

CallFindLongestMatch ==
    /\ rpc = "init"
    /\ rpc' = "done"
    /\ rvia' = "find"
    /\ rout' = findLongestMatch(branches, urlPath)
    /\ UNCHANGED <<branches, urlPath, listerErr, testRefLister, repoInfo, token,
                   tags, apiErr, handed>>
    /\ UNCHANGED <<cycleVars, crawlVars, parserVars, pathVars, urlVars, twoVars>>

CallResolveBranchAndPath ==
    /\ rpc = "init"
    /\ rpc' = "done"
    /\ rvia' = "resolve"
    /\ LET r == ResolveBranchAndPath(testRefLister, listerErr, repoInfo, token,
                                     branches, tags, apiErr, urlPath)
       IN  rout' = r.out /\ handed' = r.handed
    /\ UNCHANGED <<branches, urlPath, listerErr, testRefLister, repoInfo, token,
                   tags, apiErr>>
    /\ UNCHANGED <<cycleVars, crawlVars, parserVars, pathVars, urlVars, twoVars>>

NextResolver ==
    \/ CallFindLongestMatch
    \/ CallResolveBranchAndPath

(***************************************************************************)
(* DependencyResolver.detectCycles                                         *)
(*                                                                         *)
(* graph.nodes is a Map iterated in insertion order; the graph's node ids  *)
(* are 1..MaxGraphNodes in that order.                                     *)
(***************************************************************************)
GraphNodes == 1..MaxGraphNodes

GraphEdge == [source : GraphNodes, target : GraphNodes]

\* Array.prototype.indexOf, 0-based, -1 when absent
IndexOf(arr, x) ==
    IF \E i \in 1..Len(arr) : arr[i] = x
    THEN (CHOOSE i \in 1..Len(arr) :
            arr[i] = x /\ \A j \in 1..(i - 1) : arr[j] # x) - 1
    ELSE -1

\* Array.prototype.slice(start) for start >= -Len(arr)
SliceFrom(arr, start) ==
    IF start < 0
    THEN SubSeq(arr, Len(arr) + start + 1, Len(arr))
    ELSE SubSeq(arr, start + 1, Len(arr))

\* graph.edges.filter(e => e.source === nodeId)
OutEdges(edges, nodeId) == SelectSeq(edges, LAMBDA e : e.source = nodeId)

\* A plausible slip: every edge to a visited node is taken for a back edge.
IsBackEdgeAnyVisited(st, nodeId, target) == TRUE

\* A plausible slip: an edge from a node to itself is not taken for a cycle.
IsBackEdgeNoSelfLoop(st, nodeId, target) ==
    target \in st.recStack /\ target # nodeId

\* else if (recStack.has(edge.target))
IsBackEdge(st, nodeId, target) == target \in st.recStack

\* A plausible slip: the closing node is not appended.
CycleWithoutClosingNode(path, target) == SliceFrom(path, IndexOf(path, target))

\* [...path.slice(cycleStart), edge.target]
CycleFrom(path, target) ==
    SliceFrom(path, IndexOf(path, target)) \o <<target>>

\* dfs(nodeId, path): st holds the closure's visited, recStack and cycles.
RECURSIVE dfs(_, _, _, _)
RECURSIVE dfsOutEdges(_, _, _, _, _, _)
dfsOutEdges(edges, out, i, nodeId, path, st) ==
    IF i > Len(out) THEN st
    ELSE LET target == out[i].target
             st1 == IF target \notin st.visited
                    THEN dfs(edges, target, path, st)
                    ELSE IF IsBackEdge(st, nodeId, target)
                         THEN [st EXCEPT !.cycles =
                                  Append(@, CycleFrom(path, target))]
                         ELSE st
         IN  dfsOutEdges(edges, out, i + 1, nodeId, path, st1)

dfs(edges, nodeId, callerPath, st) ==
    LET path == Append(callerPath, nodeId)
        st0 == [st EXCEPT !.visited = @ \cup {nodeId},
                          !.recStack = @ \cup {nodeId}]
        st1 == dfsOutEdges(edges, OutEdges(edges, nodeId), 1, nodeId, path, st0)
    IN  [st1 EXCEPT !.recStack = @ \ {nodeId}]

\* for (const [, node] of graph.nodes) if (!visited.has(node.id)) dfs(node.id, [])
RECURSIVE detectLoop(_, _, _, _)
detectLoop(edges, ids, i, st) ==
    IF i > Len(ids) THEN st
    ELSE IF ids[i] \notin st.visited
         THEN detectLoop(edges, ids, i + 1, dfs(edges, ids[i], <<>>, st))
         ELSE detectLoop(edges, ids, i + 1, st)

\* detectCycles(graph), for a graph whose node map holds ids in this order
detectCycles(ids, edges) ==
    detectLoop(edges, ids, 1,
               [visited |-> {}, recStack |-> {}, cycles |-> <<>>]).cycles

CallDetectCycles ==
    /\ cpc = "init"
    /\ cpc' = "done"
    /\ cycles' = detectCycles([i \in GraphNodes |-> i], cEdges)
    /\ UNCHANGED cEdges
    /\ UNCHANGED <<resolverVars, crawlVars, parserVars, pathVars, urlVars, twoVars>>

NextCycles == CallDetectCycles

(***************************************************************************)
(* Strings of the TypeScript code                                          *)
(*                                                                         *)
(* A URL, path or kustomization entry is a record: scheme is the text      *)
(* before "://" ("" when the string has none), segs the "/"-separated      *)
(* segments of the text between "://" and "?" (what split('/') returns, so *)
(* a trailing "/" is a last segment "" and the empty text is <<"">>), and  *)
(* q the query string, which is empty or "ref=" followed by a ref.  A ref  *)
(* is kept as its "/"-separated segments, with enc telling whether its     *)
(* slashes are written "%2F".  Two strings are equal exactly when their    *)
(* records are equal.                                                      *)
(***************************************************************************)
NoQuery == [has |-> FALSE, ref |-> <<"">>, enc |-> FALSE]

\* "ref=" + ref, the ref written with plain slashes
RawRef(ref) == [has |-> TRUE, ref |-> ref, enc |-> FALSE]

\* "ref=" + encodeURIComponent(ref): each "/" of the ref becomes "%2F"
EncodedRef(ref) == [has |-> TRUE, ref |-> ref, enc |-> Len(ref) > 1]

Str(scheme, segs, q) == [scheme |-> scheme, segs |-> segs, q |-> q]

RelPath(segs) == Str("", segs, NoQuery)

\* the value of an absent optional string (remoteUrl of a local node)
Undefined == Str("undefined", <<"">>, NoQuery)

\* s === "" for a "/"-joined segment list
IsEmptyText(segs) == segs = <<>> \/ segs = <<"">>

\* the text after the last "/" of the part before "?" ...
LastSeg(s) == s.segs[Len(s.segs)]

\* ... and the text that ends the whole string
LastPart(s) == IF s.q.has THEN s.q.ref[Len(s.q.ref)] ELSE LastSeg(s)

KustomizationNames == {"kustomization.yaml", "kustomization.yml"}

\* String.prototype.toLowerCase on a segment
toLowerCase(seg) == IF seg = "Deploy.YAML" THEN "deploy.yaml" ELSE seg

\* seg.endsWith('.yaml') || seg.endsWith('.yml')
EndsWithYamlExt(seg) == seg \in KustomizationNames \cup {"deploy.yaml"}

\* seg.replace(/\.git$/, '')
StripDotGit(seg) ==
    CASE seg = "r.git" -> "r"
      [] seg = "s.git" -> "s"
      [] OTHER -> seg

\* the host matches [^\/]*gitlab[^\/]*
ContainsGitlab(host) == host \in {"gitlab.com", "gitlab.example.org"}

RECURSIVE FilterSegs(_, _)
FilterSegs(segs, drop) ==
    IF segs = <<>> THEN <<>>
    ELSE IF Head(segs) \in drop THEN FilterSegs(Tail(segs), drop)
         ELSE <<Head(segs)>> \o FilterSegs(Tail(segs), drop)

Butlast(s) == SubSeq(s, 1, Len(s) - 1)

(***************************************************************************)
(* GitCrawler: URL handling                                                *)
(***************************************************************************)
\* isYamlFile: a plain manifest, not a kustomization file
isYamlFile(path) ==
    LET lower == toLowerCase(LastPart(path))
    IN  EndsWithYamlExt(lower) /\ lower \notin KustomizationNames

isFullUrl(path) == path.scheme \in {"http", "https"}

\* joinPaths: "." and empty segments dropped, ".." pops, the rest is pushed
RECURSIVE ApplyParts(_, _)
ApplyParts(baseParts, relativeParts) ==
    IF relativeParts = <<>> THEN baseParts
    ELSE IF Head(relativeParts) = ".."
         THEN ApplyParts(IF baseParts = <<>> THEN <<>> ELSE Butlast(baseParts),
                         Tail(relativeParts))
         ELSE ApplyParts(Append(baseParts, Head(relativeParts)),
                         Tail(relativeParts))

joinPaths(basePath, relativePath) ==
    LET joined == ApplyParts(FilterSegs(basePath, {"", "."}),
                             FilterSegs(relativePath, {"", "."}))
    IN  IF joined = <<>> THEN <<".">> ELSE joined

\* the first "/tree/<segment>" of the text before "?", or 0
FirstTree(url) ==
    LET first == IF url.scheme = "" THEN 2 ELSE 1
        at == {i \in first..(Len(url.segs) - 1) :
                  url.segs[i] = "tree" /\ url.segs[i + 1] # ""}
    IN  IF at = {} THEN 0 ELSE CHOOSE i \in at : \A j \in at : i <= j

\* the text before "?" ends with "/"
HasTrailingSlash(url, segs) ==
    /\ segs # <<>>
    /\ segs[Len(segs)] = ""
    /\ (Len(segs) > 1 \/ url.scheme # "")

\* the GitLab pattern host/owner/repo/-/(tree|blob)/(.+)
IsGitLabTree(url) ==
    /\ url.scheme \in {"http", "https"}
    /\ Len(url.segs) >= 6
    /\ ContainsGitlab(url.segs[1])
    /\ url.segs[2] # "" /\ url.segs[3] # ""
    /\ url.segs[4] = "-"
    /\ url.segs[5] \in {"tree", "blob"}
    /\ ~IsEmptyText(SubSeq(url.segs, 6, Len(url.segs)))

normalizeUrl(url) ==
    IF IsGitLabTree(url)
    THEN LET parts == SubSeq(url.segs, 6, Len(url.segs))
             branch == SubSeq(parts, 1, Min(2, Len(parts)))
             path == SubSeq(parts, 3, Len(parts))
         IN  Str(url.scheme,
                 SubSeq(url.segs, 1, 3) \o (IF IsEmptyText(path) THEN <<>> ELSE path),
                 EncodedRef(branch))
    ELSE LET t == FirstTree(url)
             noTree == IF t = 0 THEN url.segs
                       ELSE SubSeq(url.segs, 1, t - 1) \o
                            SubSeq(url.segs, t + 2, Len(url.segs))
             noSlash == IF HasTrailingSlash(url, noTree) THEN Butlast(noTree)
                        ELSE noTree
         IN  Str(url.scheme, noSlash, url.q)

ensureKustomizationYaml(url) ==
    IF LastPart(url) \in KustomizationNames THEN url
    ELSE Str(url.scheme, Append(url.segs, "kustomization.yaml"), url.q)

\* parseGitUrl threw "URL non reconnue"
Unrecognised ==
    [ok |-> FALSE, provider |-> "none", host |-> "", owner |-> "", repo |-> "",
     hasRef |-> FALSE, ref |-> <<"">>, path |-> <<"">>]

Components(provider, host, owner, repo, hasRef, ref, path) ==
    [ok |-> TRUE, provider |-> provider, host |-> host, owner |-> owner,
     repo |-> repo, hasRef |-> hasRef, ref |-> IF hasRef THEN ref ELSE <<"">>,
     path |-> path]

\* the optional "/(.*)" group after host/owner/repo, '' when absent
RestPath(segs, from) ==
    IF Len(segs) >= from THEN SubSeq(segs, from, Len(segs)) ELSE <<"">>

parseGitUrl(url) ==
    LET segs == url.segs
        n == Len(segs)
        \* ?ref=VALUE, decoded; "heads" is ignored
        hasRef == url.q.has /\ url.q.ref # <<"heads">>
        ref == url.q.ref
        http == url.scheme \in {"http", "https"}
        repoPart == http /\ n >= 3 /\ segs[2] # "" /\ segs[3] # ""
    IN  IF repoPart /\ segs[1] = "github.com"
        THEN Components("github", segs[1], segs[2], StripDotGit(segs[3]),
                        hasRef, ref, RestPath(segs, 4))
        ELSE IF IsGitLabTree(url)
        THEN LET branchAndPath == SubSeq(segs, 6, n)
                 parts == Len(branchAndPath)
                 i == Min(3, parts)
             IN  IF hasRef
                 THEN Components("gitlab", segs[1], segs[2], StripDotGit(segs[3]),
                                 TRUE, ref, branchAndPath)
                 ELSE IF i >= 2
                 THEN Components("gitlab", segs[1], segs[2], StripDotGit(segs[3]),
                                 TRUE, SubSeq(branchAndPath, 1, i),
                                 IF parts > i THEN SubSeq(branchAndPath, i + 1, parts)
                                 ELSE <<"">>)
                 ELSE Components("gitlab", segs[1], segs[2], StripDotGit(segs[3]),
                                 TRUE, branchAndPath, <<"">>)
        ELSE IF repoPart /\ ContainsGitlab(segs[1])
        THEN Components("gitlab", segs[1], segs[2], StripDotGit(segs[3]),
                        TRUE, IF hasRef THEN ref ELSE <<"main">>,
                        RestPath(segs, 4))
        ELSE Unrecognised

buildGitUrl(provider, host, owner, repo, hasRef, ref, path) ==
    Str("https",
        <<host, owner, repo>> \o (IF IsEmptyText(path) THEN <<>> ELSE path),
        IF hasRef /\ ~IsEmptyText(ref) THEN EncodedRef(ref) ELSE NoQuery)

\* resolveUrl; the base is a URL parseGitUrl recognises
resolveUrl(baseUrl, relativePath) ==
    IF isFullUrl(relativePath) THEN relativePath
    ELSE LET components == parseGitUrl(baseUrl)
         IN  buildGitUrl(components.provider, components.host, components.owner,
                         components.repo, components.hasRef, components.ref,
                         joinPaths(components.path, relativePath.segs))

\* The URL parser of fetch() removes "." segments and lets ".." remove the
\* segment before it.
RECURSIVE RemoveDotSegments(_, _)
RemoveDotSegments(done, segs) ==
    IF segs = <<>> THEN done
    ELSE IF Head(segs) = "." THEN RemoveDotSegments(done, Tail(segs))
    ELSE IF Head(segs) = ".."
         THEN RemoveDotSegments(IF done = <<>> THEN <<>> ELSE Butlast(done),
                                Tail(segs))
    ELSE RemoveDotSegments(Append(done, Head(segs)), Tail(segs))

\* the file of the repository that the request reads
RepoFile(provider, host, owner, repo, ref, path) ==
    [provider |-> provider, host |-> host, owner |-> owner, repo |-> repo,
     ref |-> ref, path |-> path]

\* fetchGitHubFile: contents/<path>?ref=<ref || 'main'>; the path is put in
\* the request URL unencoded, so fetch() removes its dot segments
fetchGitHubFile(components) ==
    RepoFile("github", components.host, components.owner, components.repo,
             IF components.hasRef /\ ~IsEmptyText(components.ref)
             THEN components.ref ELSE <<"main">>,
             RemoveDotSegments(<<>>, components.path))

\* fetchGitLabFile: files/<encodeURIComponent(path)>/raw?ref=<ref || 'main'>;
\* parseGitUrl always gives a GitLab URL a ref, so no branch detection
fetchGitLabFile(components) ==
    RepoFile("gitlab", components.host, components.owner, components.repo,
             IF components.hasRef /\ ~IsEmptyText(components.ref)
             THEN components.ref ELSE <<"main">>,
             components.path)

\* fetchFileContent: the file requested for a kustomization URL
fetchFileContent(url) ==
    LET components == parseGitUrl(url)
    IN  IF components.provider = "github" THEN fetchGitHubFile(components)
        ELSE fetchGitLabFile(components)

(***************************************************************************)
(* GitCrawler: nodes and the crawl                                         *)
(*                                                                         *)
(* Node objects live in objs; a node list, the visited map and the graph's *)
(* node index hold references (positions in objs), so that an object       *)
(* reached twice is the same object.  A kustomization document is a record *)
(* of its three lists; yaml.parse of an empty document gives null.         *)
(***************************************************************************)
Doc(resources, bases, components) ==
    [form |-> "doc", resources |-> resources, bases |-> bases,
     components |-> components]

\* yaml.parse of an empty document
NullDoc == [form |-> "null", resources |-> <<>>, bases |-> <<>>, components |-> <<>>]

\* { apiVersion, kind } of an error node
PlaceholderDoc ==
    [form |-> "placeholder", resources |-> <<>>, bases |-> <<>>, components |-> <<>>]

\* {} of a virtual node
EmptyDoc == [form |-> "empty", resources |-> <<>>, bases |-> <<>>, components |-> <<>>]

\* `node-${n}`, `node-${n}-error`, `remote-${n}`, `missing-${n}`
NodeId(prefix, n, suffix) == [prefix |-> prefix, n |-> n, suffix |-> suffix]

\* components.path || '.'
displayPath(components) ==
    RelPath(IF IsEmptyText(components.path) THEN <<".">> ELSE components.path)

\* referenceType || 'resource'
TypeOrResource(referenceType) ==
    IF referenceType = "null" THEN "resource" ELSE referenceType

createNode(url, kustomization, referenceType, counter) ==
    [id |-> NodeId("node", counter, ""),
     path |-> displayPath(parseGitUrl(url)),
     type |-> TypeOrResource(referenceType),
     content |-> kustomization,
     isRemote |-> TRUE,
     remoteUrl |-> url,
     loaded |-> TRUE,
     error |-> FALSE]

createErrorNode(url, type, counter) ==
    [id |-> NodeId("node", counter, "-error"),
     path |-> IF parseGitUrl(url).ok THEN displayPath(parseGitUrl(url)) ELSE url,
     type |-> type,
     content |-> PlaceholderDoc,
     isRemote |-> TRUE,
     remoteUrl |-> url,
     loaded |-> FALSE,
     error |-> TRUE]

\* Map.has / Map.get / Map.set on a Map kept as its entries in insertion order
MapHas(map, key) == \E i \in 1..Len(map) : map[i].key = key

MapGet(map, key) == map[CHOOSE i \in 1..Len(map) : map[i].key = key].value

MapSet(map, key, value) ==
    IF MapHas(map, key)
    THEN [i \in 1..Len(map) |->
             IF map[i].key = key THEN [key |-> key, value |-> value] ELSE map[i]]
    ELSE Append(map, [key |-> key, value |-> value])

\* a crawl that never caches the node of a failed fetch
visitedSetUnlessError(map, url, node, isError) ==
    IF isError THEN map ELSE MapSet(map, url, node)

\* this.visited.set(normalizedUrl, node)
visitedSet(map, url, node, isError) == MapSet(map, url, node)

EntriesOf(content, list) ==
    CASE list = 1 -> content.resources
      [] list = 2 -> content.bases
      [] list = 3 -> content.components
      [] OTHER -> <<>>

\* the next entry the three loops of crawlKustomization reach from (list, i);
\* list 4 when they are over
RECURSIVE Seek(_, _, _)
Seek(content, list, i) ==
    IF list > 3 THEN [list |-> 4, i |-> 1]
    ELSE IF i <= Len(EntriesOf(content, list)) THEN [list |-> list, i |-> i]
    ELSE Seek(content, list + 1, 1)

\* processResource crawls with 'resource' (resources and bases), processComponent
\* with 'component'
ReferenceTypeOf(list) == IF list = 3 THEN "component" ELSE "resource"

\* An exception leaves a crawlKustomization call that was made with
\* referenceType via: processResource catches it, processComponent lets it
\* leave the caller too, crawlFromOverlay rethrows it.
RECURSIVE Unwind(_, _)
Unwind(stk, via) ==
    IF via = "null" THEN [stack |-> <<>>, state |-> "rejected"]
    ELSE IF via = "resource" THEN [stack |-> stk, state |-> "run"]
    ELSE Unwind(Butlast(stk), stk[Len(stk)].via)

(***************************************************************************)
(* DependencyResolver.buildGraph                                           *)
(*                                                                         *)
(* The build threads g = [nodeMap, edges, edgeCounter, objs, threw]:       *)
(* nodeMap is the Map from path to node reference, objs the node objects   *)
(* (virtual nodes are appended to it), threw is set when reading the lists *)
(* of a null kustomizationContent raised a TypeError.                      *)
(***************************************************************************)
isRemoteUrl(path) == path.scheme \in {"http", "https"}

isLocalPath(path) == ~isRemoteUrl(path)

\* url.split('/') on the text before "?"
SplitSlash(url) ==
    IF url.scheme = "" THEN url.segs
    ELSE <<IF url.scheme = "https" THEN "https:" ELSE "http:", "">> \o url.segs

LastTwo(parts) == SubSeq(parts, IF Len(parts) > 2 THEN Len(parts) - 1 ELSE 1, Len(parts))

extractDisplayNameFromUrl(url) ==
    LET segs == url.segs
        isGitHub == /\ url.scheme # ""
                    /\ Len(segs) >= 4
                    /\ segs[1] = "github.com"
                    /\ segs[2] # "" /\ segs[3] # ""
                    /\ ~IsEmptyText(SubSeq(segs, 4, Len(segs)))
    IN  IF isGitHub THEN RelPath(SubSeq(segs, 4, Len(segs)))
        ELSE RelPath(LastTwo(SplitSlash(url)))

\* the last "/"-separated part of the whole string, cut at "?"; 'remote' if empty
extractLabelFromUrl(url) ==
    LET last == IF url.q.has /\ ~url.q.enc /\ Len(url.q.ref) > 1
                THEN url.q.ref[Len(url.q.ref)]
                ELSE LastSeg(url)
    IN  RelPath(<<IF last = "" THEN "remote" ELSE last>>)

\* resolvePath: a base of '.' is empty, empty segments are dropped, ".." pops,
\* "." is skipped
RECURSIVE ResolveParts(_, _)
ResolveParts(parts, relParts) ==
    IF relParts = <<>> THEN parts
    ELSE IF Head(relParts) = ".."
         THEN ResolveParts(IF parts = <<>> THEN <<>> ELSE Butlast(parts), Tail(relParts))
    ELSE IF Head(relParts) # "."
         THEN ResolveParts(Append(parts, Head(relParts)), Tail(relParts))
    ELSE ResolveParts(parts, Tail(relParts))

resolvePath(basePath, relativePath) ==
    LET parts == IF basePath = <<".">> THEN <<>> ELSE FilterSegs(basePath, {""})
        result == ResolveParts(parts, FilterSegs(relativePath, {""}))
    IN  IF result = <<>> THEN <<".">> ELSE result

Edge(counter, source, target, type, label) ==
    [id |-> counter, source |-> source, target |-> target, type |-> type,
     label |-> label]

\* the first node of the Map that carries this remote URL, or 0
FindByRemoteUrl(g, reference) ==
    LET at == {i \in 1..Len(g.nodeMap) :
                  g.objs[g.nodeMap[i].value].remoteUrl = reference}
    IN  IF at = {} THEN 0
        ELSE g.nodeMap[CHOOSE i \in at : \A j \in at : i <= j].value

processReference(g, sourceNode, reference, type) ==
    IF isRemoteUrl(reference)
    THEN LET existing == FindByRemoteUrl(g, reference)
             virtualNode ==
                 [id |-> NodeId("remote", g.edgeCounter, ""),
                  path |-> extractDisplayNameFromUrl(reference),
                  type |-> IF type = "component" THEN "component" ELSE "base",
                  content |-> EmptyDoc,
                  isRemote |-> TRUE,
                  remoteUrl |-> reference,
                  loaded |-> FALSE,
                  error |-> FALSE]
             targetNodeId == IF existing # 0 THEN g.objs[existing].id
                             ELSE virtualNode.id
             edge == Edge(g.edgeCounter, g.objs[sourceNode].id, targetNodeId,
                          type, extractLabelFromUrl(reference))
         IN  IF existing # 0
             THEN [g EXCEPT !.edges = Append(@, edge), !.edgeCounter = @ + 1]
             ELSE [g EXCEPT !.objs = Append(@, virtualNode),
                            !.nodeMap = MapSet(@, virtualNode.path, Len(g.objs) + 1),
                            !.edges = Append(@, edge),
                            !.edgeCounter = @ + 1]
    ELSE LET resolvedPath == RelPath(resolvePath(g.objs[sourceNode].path.segs,
                                                 reference.segs))
             missingNode ==
                 [id |-> NodeId("missing", g.edgeCounter, ""),
                  path |-> resolvedPath,
                  type |-> "base",
                  content |-> EmptyDoc,
                  isRemote |-> FALSE,
                  remoteUrl |-> Undefined,
                  loaded |-> FALSE,
                  error |-> FALSE]
         IN  IF MapHas(g.nodeMap, resolvedPath)
             THEN [g EXCEPT !.edges = Append(@, Edge(g.edgeCounter,
                                 g.objs[sourceNode].id,
                                 g.objs[MapGet(g.nodeMap, resolvedPath)].id,
                                 type, reference)),
                            !.edgeCounter = @ + 1]
             ELSE [g EXCEPT !.objs = Append(@, missingNode),
                            !.nodeMap = MapSet(@, resolvedPath, Len(g.objs) + 1),
                            !.edges = Append(@, Edge(g.edgeCounter,
                                 g.objs[sourceNode].id, missingNode.id,
                                 type, reference)),
                            !.edgeCounter = @ + 1]

RECURSIVE ProcessList(_, _, _, _, _, _)
ProcessList(g, sourceNode, entries, i, type, skipYaml) ==
    IF i > Len(entries) THEN g
    ELSE ProcessList(IF skipYaml /\ EndsWithYamlExt(LastPart(entries[i])) THEN g
                     ELSE processReference(g, sourceNode, entries[i], type),
                     sourceNode, entries, i + 1, type, skipYaml)

\* resources (entries ending in .yaml/.yml skipped), then bases, then components
buildEdgesForNode(g, node) ==
    LET kustomization == g.objs[node].content
    IN  IF kustomization.form = "null" THEN [g EXCEPT !.threw = TRUE]
        ELSE ProcessList(
                 ProcessList(
                     ProcessList(g, node, kustomization.resources, 1, "resource", TRUE),
                     node, kustomization.bases, 1, "base", FALSE),
                 node, kustomization.components, 1, "component", FALSE)

RECURSIVE BuildEdges(_, _, _)
BuildEdges(g, nodeList, i) ==
    IF i > Len(nodeList) \/ g.threw THEN g
    ELSE BuildEdges(buildEdgesForNode(g, nodeList[i]), nodeList, i + 1)

\* a pass that lets base win over component
CorrectedTypeBaseFirst(oldType, refTypes) ==
    IF "base" \in refTypes THEN "base"
    ELSE IF "component" \in refTypes THEN "component"
    ELSE oldType

\* priority: component > base > the type the node has
CorrectedType(oldType, refTypes) ==
    IF "component" \in refTypes THEN "component"
    ELSE IF "base" \in refTypes THEN "base"
    ELSE oldType

\* the types of the edges that target nodeId
ReferenceTypes(edges, nodeId) ==
    {edges[i].type : i \in {j \in 1..Len(edges) : edges[j].target = nodeId}}

\* the first node of the Map with this id, or 0
FindById(nodeMap, objects, nodeId) ==
    LET at == {i \in 1..Len(nodeMap) : objects[nodeMap[i].value].id = nodeId}
    IN  IF at = {} THEN 0
        ELSE nodeMap[CHOOSE i \in at : \A j \in at : i <= j].value

\* Each targeted id is corrected once, on the first node of the Map that has
\* it; no other object changes.
correctNodeTypes(nodeMap, edges, objects) ==
    [r \in 1..Len(objects) |->
        IF /\ ReferenceTypes(edges, objects[r].id) # {}
           /\ FindById(nodeMap, objects, objects[r].id) = r
        THEN [objects[r] EXCEPT
                 !.type = CorrectedType(@, ReferenceTypes(edges, objects[r].id))]
        ELSE objects[r]]

RECURSIVE IndexByPath(_, _, _, _)
IndexByPath(nodeMap, objects, nodeList, i) ==
    IF i > Len(nodeList) THEN nodeMap
    ELSE IndexByPath(MapSet(nodeMap, objects[nodeList[i]].path, nodeList[i]),
                     objects, nodeList, i + 1)

\* buildGraph, up to the type correction
buildEdges(nodeList, objects, counter) ==
    BuildEdges([nodeMap |-> IndexByPath(<<>>, objects, nodeList, 1),
                edges |-> <<>>,
                edgeCounter |-> counter,
                objs |-> objects,
                threw |-> FALSE],
               nodeList, 1)

\* a builder that takes the last node of the list for the root
rootPathOfLast(nodeList, objects) ==
    IF nodeList = <<>> THEN RelPath(<<"">>) ELSE objects[nodeList[Len(nodeList)]].path

\* nodes[0]?.path || ''
rootPathOf(nodeList, objects) ==
    IF nodeList = <<>> THEN RelPath(<<"">>) ELSE objects[nodeList[1]].path

NoGraph == [status |-> "none", nodes |-> <<>>, edges |-> <<>>, rootPath |-> RelPath(<<"">>)]

\* no second build; a second graph comes with the node objects it refers to
NoRebuild == [status |-> "none", nodes |-> <<>>, edges |-> <<>>, objs |-> <<>>]

(***************************************************************************)
(* The crawl and the build as a state machine                              *)
(*                                                                         *)
(* A step runs the code between two awaits of a fetch.  The repositories   *)
(* do not change during a crawl: a file read twice has the same text, and  *)
(* files holds the documents read so far.  A request can fail at any time. *)
(***************************************************************************)
\* the kustomization entries of the repositories
Entries ==
    {RelPath(<<"b">>), RelPath(<<".", "b">>), RelPath(<<"..">>),
     RelPath(<<"deploy.yaml">>),
     Str("https", <<"github.com", "o", "s">>, RawRef(<<"main">>)),
     Str("https", <<"github.com", "o", "s", "">>, RawRef(<<"main">>))}

\* the overlay URLs a crawl is started from
RootUrls ==
    {Str("https", <<"github.com", "o", "r">>, RawRef(<<"main">>)),
     Str("https", <<"github.com", "o", "r", "tree", "main", "b">>, NoQuery)}

\* the documents with at most n entries taken from E, and the empty document
DocumentsOver(E, n) ==
    {NullDoc} \cup
    UNION {UNION {{Doc(r, b, c) : c \in SeqsUpTo(E, n - Len(r) - Len(b))} :
                     b \in SeqsUpTo(E, n - Len(r))} :
              r \in SeqsUpTo(E, n)}

Documents(n) == DocumentsOver(Entries, n)

EntryCount(doc) == Len(doc.resources) + Len(doc.bases) + Len(doc.components)

\* no call awaits its fetch; from is the node whose entry made the call (0
\* for the root call) and list the list the entry is in (0 for the root)
NoPending == [url |-> Undefined, type |-> "null", from |-> 0, list |-> 0]

kustomizationUrl == ensureKustomizationYaml(pending.url)

\* crawlKustomization from its cache miss to the await of the fetch
AwaitFetch(url, referenceType, from, list) ==
    /\ pending' = [url |-> url, type |-> referenceType, from |-> from, list |-> list]
    /\ fetchLog' = IF parseGitUrl(ensureKustomizationYaml(url)).ok
                   THEN Append(fetchLog,
                               [url |-> url,
                                file |-> fetchFileContent(ensureKustomizationYaml(url))])
                   ELSE fetchLog
    /\ crawlState' = "fetch"

\* crawlFromOverlay, up to the fetch of the root
StartCrawl ==
    /\ crawlState = "idle"
    /\ \E url \in RootUrls :
          /\ overlayUrl' = url
          /\ AwaitFetch(normalizeUrl(url), "null", 0, 0)
    /\ nodeCounter' = 0
    /\ visited' = <<>>
    /\ nodes' = <<>>
    /\ UNCHANGED <<objs, stack, calls, files, refsUsed, buildVars, resolverVars, cycleVars, parserVars, pathVars, urlVars, twoVars>>

\* crawlKustomization from the node's creation to its first child, its
\* return or its exception
NodeCreated(node) ==
    LET ref == Len(objs) + 1
        after ==
            IF node.error
            THEN [stack |-> stack, state |-> IF stack = <<>> THEN "done" ELSE "run"]
            ELSE IF node.content.form = "null"
            THEN Unwind(stack, pending.type)
            ELSE [stack |-> Append(stack, [url |-> pending.url, node |-> ref,
                                           via |-> pending.type,
                                           list |-> 1, i |-> 1]),
                  state |-> "run"]
    IN  /\ objs' = Append(objs, node)
        /\ nodes' = Append(nodes, ref)
        /\ visited' = visitedSet(visited, pending.url, ref, node.error)
        /\ nodeCounter' = nodeCounter + 1
        /\ calls' = Append(calls, [url |-> pending.url, hit |-> FALSE,
                                   node |-> ref, before |-> Len(nodes),
                                   after |-> Len(nodes) + 1,
                                   from |-> pending.from, list |-> pending.list,
                                   crawl |-> crawls.active])
        /\ stack' = after.stack
        /\ crawlState' = after.state
        /\ pending' = NoPending

\* the request, parseGitUrl before it or yaml.parse after it threw
FetchFails ==
    /\ crawlState = "fetch"
    /\ NodeCreated(createErrorNode(pending.url, TypeOrResource(pending.type),
                                   nodeCounter))
    /\ UNCHANGED <<overlayUrl, fetchLog, files, refsUsed, buildVars, resolverVars, cycleVars, parserVars, pathVars, urlVars, twoVars>>

\* entries the files not fetched yet may still hold
RefsLeft ==
    IF parked.crawlState = "off" THEN MaxRefs - refsUsed
    ELSE MaxSharedRefs - refsUsed

\* the request returned the file's text and yaml.parse returned its document
FetchLoads ==
    /\ crawlState = "fetch"
    /\ parseGitUrl(kustomizationUrl).ok
    /\ LET file == fetchFileContent(kustomizationUrl)
       IN  \E kustomization \in
                  IF MapHas(files, file) THEN {MapGet(files, file)}
                  ELSE Documents(RefsLeft) :
              /\ files' = MapSet(files, file, kustomization)
              /\ refsUsed' = IF MapHas(files, file) THEN refsUsed
                             ELSE refsUsed + EntryCount(kustomization)
              /\ NodeCreated(IF parseGitUrl(pending.url).ok
                             THEN createNode(pending.url, kustomization,
                                             pending.type, nodeCounter)
                             ELSE createErrorNode(pending.url,
                                                  TypeOrResource(pending.type),
                                                  nodeCounter))
    /\ UNCHANGED <<overlayUrl, fetchLog, buildVars, resolverVars, cycleVars, parserVars, pathVars, urlVars, twoVars>>

top == stack[Len(stack)]

cursor == Seek(objs[top.node].content, top.list, top.i)

entry == EntriesOf(objs[top.node].content, cursor.list)[cursor.i]

\* the caller's loop moves past the entry
NextEntry == [stack EXCEPT ![Len(stack)] = [@ EXCEPT !.list = cursor.list,
                                                     !.i = cursor.i + 1]]

\* the URL crawlKustomization is called with for the entry, normalized
entryUrl == normalizeUrl(resolveUrl(top.url, entry))

Running == crawlState = "run" /\ stack # <<>> /\ cursor.list <= 3

\* processResource returns at once for a plain YAML file
SkipYamlFile ==
    /\ Running
    /\ cursor.list < 3 /\ isYamlFile(entry)
    /\ stack' = NextEntry
    /\ UNCHANGED <<crawlState, overlayUrl, nodeCounter, visited, nodes, objs,
                   pending, fetchLog, calls, files, refsUsed, buildVars, resolverVars, cycleVars, parserVars, pathVars, urlVars, twoVars>>

\* crawlKustomization returns the cached node
ReturnCached ==
    /\ Running
    /\ ~(cursor.list < 3 /\ isYamlFile(entry))
    /\ MapHas(visited, entryUrl)
    /\ calls' = Append(calls, [url |-> entryUrl, hit |-> TRUE,
                               node |-> MapGet(visited, entryUrl),
                               before |-> Len(nodes), after |-> Len(nodes),
                               from |-> top.node, list |-> cursor.list,
                               crawl |-> crawls.active])
    /\ stack' = NextEntry
    /\ UNCHANGED <<crawlState, overlayUrl, nodeCounter, visited, nodes, objs,
                   pending, fetchLog, files, refsUsed, buildVars, resolverVars, cycleVars, parserVars, pathVars, urlVars, twoVars>>

\* crawlKustomization fetches the entry's kustomization file
FetchChild ==
    /\ Running
    /\ ~(cursor.list < 3 /\ isYamlFile(entry))
    /\ ~MapHas(visited, entryUrl)
    /\ AwaitFetch(entryUrl, ReferenceTypeOf(cursor.list), top.node, cursor.list)
    /\ stack' = NextEntry
    /\ UNCHANGED <<overlayUrl, nodeCounter, visited, nodes, objs, calls, files,
                   refsUsed, buildVars, resolverVars, cycleVars, parserVars, pathVars, urlVars, twoVars>>

\* the three loops are over: crawlKustomization returns its node
ReturnNode ==
    /\ crawlState = "run" /\ stack # <<>> /\ cursor.list = 4
    /\ stack' = Butlast(stack)
    /\ crawlState' = IF Len(stack) = 1 THEN "done" ELSE "run"
    /\ UNCHANGED <<overlayUrl, nodeCounter, visited, nodes, objs, pending,
                   fetchLog, calls, files, refsUsed, buildVars, resolverVars, cycleVars, parserVars, pathVars, urlVars, twoVars>>

\* buildGraph on the node list the crawl returned, or on a list it is given
BuildGraph ==
    /\ crawlState \in {"done", "given"}
    /\ graph.status = "none"
    /\ LET g == buildEdges(nodes, objs, edgeCounter)
       IN  /\ edgeCounter' = g.edgeCounter
           /\ typeBefore' = [r \in 1..Len(g.objs) |-> g.objs[r].type]
           /\ IF g.threw
              THEN /\ graph' = [graph EXCEPT !.status = "threw"]
                   /\ objs' = objs
              ELSE /\ graph' = [status |-> "built", nodes |-> g.nodeMap,
                                edges |-> g.edges,
                                rootPath |-> rootPathOf(nodes, objs)]
                   /\ objs' = correctNodeTypes(g.nodeMap, g.edges, g.objs)
    /\ UNCHANGED <<crawlState, overlayUrl, nodeCounter, visited, nodes, stack,
                   pending, fetchLog, calls, files, refsUsed, rebuilt,
                   resolverVars, cycleVars, parserVars, pathVars, urlVars, twoVars>>

\* the node list as it was handed to the first build: the nodes of the list
\* with the types they had before the type correction
InputObjs == [i \in 1..Len(nodes) |-> [objs[nodes[i]] EXCEPT !.type = typeBefore[nodes[i]]]]

\* buildGraph called again on the same instance, with a node list equal to
\* the one of the first call; this.edgeCounter is initialised with the
\* instance and goes on from the value the first call left
BuildGraphAgain ==
    /\ crawlState = "given"
    /\ graph.status = "built"
    /\ rebuilt.status = "none"
    /\ LET list == [i \in 1..Len(nodes) |-> i]
           g == buildEdges(list, InputObjs, edgeCounter)
       IN  /\ edgeCounter' = g.edgeCounter
           /\ rebuilt' = IF g.threw THEN [NoRebuild EXCEPT !.status = "threw"]
                         ELSE [status |-> "built", nodes |-> g.nodeMap,
                               edges |-> g.edges,
                               objs |-> correctNodeTypes(g.nodeMap, g.edges, g.objs)]
    /\ UNCHANGED <<crawlState, overlayUrl, nodeCounter, visited, nodes, objs, stack,
                   pending, fetchLog, calls, files, refsUsed, graph, typeBefore,
                   resolverVars, cycleVars, parserVars, pathVars, urlVars, twoVars>>

\* the entries of the documents of a node list handed to buildGraph: two
\* local paths and two remote URLs
BuildEntries ==
    {RelPath(<<"b">>), RelPath(<<"c">>),
     Str("https", <<"github.com", "o", "s", "c">>, RawRef(<<"main">>)),
     Str("https", <<"github.com", "o", "t", "c">>, RawRef(<<"main">>))}

\* the URL of the first node of such a list, and the URLs of its second node
BuildRootUrl == Str("https", <<"github.com", "o", "r">>, RawRef(<<"main">>))

BuildNodeUrls ==
    {Str("https", <<"github.com", "o", "r", "b">>, RawRef(<<"main">>)),
     Str("https", <<"github.com", "o", "s", "c">>, RawRef(<<"main">>))}

\* the KustomizeNode[] handed to buildGraph: one or two loaded nodes as
\* createNode makes them, with n entries at most in their documents
NodeLists(n) ==
    UNION {{<<createNode(BuildRootUrl, d1, "null", 0)>>} \cup
           UNION {{<<createNode(BuildRootUrl, d1, "null", 0),
                     createNode(url, d2, "resource", 1)>> :
                      d2 \in DocumentsOver(BuildEntries, n - EntryCount(d1))} :
                  url \in BuildNodeUrls} :
           d1 \in DocumentsOver(BuildEntries, n)}

\* the local state of a crawlFromOverlay call: where it is, its URL, its
\* node list, its crawlKustomization calls in progress and the one that
\* awaits its fetch
CrawlOf(state, url, list, stk, pend) ==
    [crawlState |-> state, overlayUrl |-> url, nodes |-> list, stack |-> stk,
     pending |-> pend]

\* no second call
NoCrawl == CrawlOf("off", Undefined, <<>>, <<>>, NoPending)

\* a crawlFromOverlay call that has not started
IdleCrawl == CrawlOf("idle", Undefined, <<>>, <<>>, NoPending)

\* The event loop runs the other crawlFromOverlay call: the running one
\* awaits a response or has finished, and the other one starts or receives
\* its response.  this.visited, this.nodeCounter and the repositories are
\* the same for both.
Switch ==
    /\ crawlState \in {"fetch", "done", "rejected"}
    /\ parked.crawlState \in {"idle", "fetch"}
    /\ parked' = CrawlOf(crawlState, overlayUrl, nodes, stack, pending)
    /\ crawlState' = parked.crawlState
    /\ overlayUrl' = parked.overlayUrl
    /\ nodes' = parked.nodes
    /\ stack' = parked.stack
    /\ pending' = parked.pending
    /\ crawls' = [active |-> 3 - crawls.active,
                  overlap |-> crawls.overlap \/ crawlState = "fetch"]
    /\ UNCHANGED <<nodeCounter, visited, objs, fetchLog, calls, files, refsUsed,
                   buildVars, resolverVars, cycleVars, parserVars, pathVars, urlVars>>

NextTwoCrawls ==
    \/ StartCrawl
    \/ FetchFails
    \/ FetchLoads
    \/ SkipYamlFile
    \/ ReturnCached
    \/ FetchChild
    \/ ReturnNode
    \/ Switch

Next ==
    \/ StartCrawl
    \/ FetchFails
    \/ FetchLoads
    \/ SkipYamlFile
    \/ ReturnCached
    \/ FetchChild
    \/ ReturnNode
    \/ BuildGraph

(***************************************************************************)
(* parser.ParseReference                                                   *)
(*                                                                         *)
(* A reference string is the sequence of its tokens: the scheme with its   *)
(* "://", the separator "/", the mark "?ref=" and the names between them.  *)
(* ParseReference is written from its specification (classification rules *)
(* and output guarantee of the reference parser) and from the cases of     *)
(* reference_test.go.  An SSH-style locator is the mark "git@", the host,   *)
(* the mark ":" and the rest.                                              *)
(***************************************************************************)
SchemeTokens == {"https://", "http://"}

\* user@host:rest
IsSshLocator(text) == Len(text) >= 4 /\ text[1] = "git@" /\ text[3] = ":"

\* the equivalent HTTPS form of an SSH-style locator: https://host/rest
SshToHttps(text) == <<"https://", text[2], "/">> \o SubSeq(text, 4, Len(text))

\* strings.Split(s, "/"): the names between the separators, "" where two
\* separators meet or the text starts or ends with one
RECURSIVE SplitTokens(_)
SplitTokens(toks) ==
    IF toks = <<>> THEN <<"">>
    ELSE IF Head(toks) = "/" THEN <<"">> \o SplitTokens(Tail(toks))
    ELSE <<Head(toks)>> \o Tail(SplitTokens(Tail(toks)))

\* the position of the first token tok, or 0
FirstToken(toks, tok) ==
    LET at == {i \in 1..Len(toks) : toks[i] = tok}
    IN  IF at = {} THEN 0 ELSE CHOOSE i \in at : \A j \in at : i <= j

\* strings.Trim(path, "/") on a list of segments
RECURSIVE TrimEmptySegs(_)
TrimEmptySegs(segs) ==
    IF segs = <<>> THEN <<>>
    ELSE IF Head(segs) = "" THEN TrimEmptySegs(Tail(segs))
    ELSE IF segs[Len(segs)] = "" THEN TrimEmptySegs(Butlast(segs))
    ELSE segs

ParseError ==
    [err |-> TRUE, type |-> "none", provider |-> "", host |-> "", owner |-> <<>>,
     repo |-> "", ref |-> <<>>, path |-> <<>>, relativePath |-> <<>>]

\* the provider's default branch
DefaultRef == <<"main">>

\* A remote reference.  The ref is the whole value of ref=, "heads" and an
\* absent value giving the default branch.  With doubleSlash the text before
\* the first "//" names the repository, its last segment the repo and those
\* before it the owner, and the text after it is the path; otherwise the
\* first two segments after the host are owner and repo and the rest is the
\* path.
ParseRemote(text, doubleSlash) ==
    LET body == Tail(text)
        q == FirstToken(body, "?ref=")
        base == IF q = 0 THEN body ELSE SubSeq(body, 1, q - 1)
        refValue == IF q = 0 THEN <<>> ELSE SubSeq(body, q + 1, Len(body))
        segs == SplitTokens(base)
        splits == {i \in 3..(Len(segs) - 1) : segs[i] = ""}
        at == IF doubleSlash /\ splits # {}
              THEN CHOOSE i \in splits : \A j \in splits : i <= j ELSE 0
        left == IF at # 0 THEN SubSeq(segs, 2, at - 1)
                ELSE SubSeq(segs, 2, Min(3, Len(segs)))
        rest == IF at # 0 THEN SubSeq(segs, at + 1, Len(segs))
                ELSE SubSeq(segs, 4, Len(segs))
    IN  IF Len(left) < 2 \/ "" \in Range(left) \/ segs[1] = "" THEN ParseError
        ELSE [err |-> FALSE,
              type |-> "remote",
              provider |-> IF segs[1] = "github.com" THEN "github"
                           ELSE IF ContainsGitlab(segs[1]) THEN "gitlab"
                           ELSE "unknown",
              host |-> segs[1],
              owner |-> Butlast(left),
              repo |-> StripDotGit(left[Len(left)]),
              ref |-> IF refValue \in {<<>>, <<"heads">>} THEN DefaultRef
                      ELSE refValue,
              path |-> TrimEmptySegs(rest),
              relativePath |-> <<>>]

\* path.Clean on a relative reference: a leading "./" and a trailing "/"
\* are dropped
CleanRelative(text) ==
    LET noDot == IF Len(text) >= 2 /\ text[1] = "." /\ text[2] = "/"
                 THEN SubSeq(text, 3, Len(text)) ELSE text
    IN  IF Len(noDot) >= 2 /\ noDot[Len(noDot)] = "/" THEN Butlast(noDot)
        ELSE noDot

\* a parser that reads every URL in the plain form
ParseReferencePlainOnly(text) ==
    IF text = <<>> THEN ParseError
    ELSE IF IsSshLocator(text) THEN ParseRemote(SshToHttps(text), FALSE)
    ELSE IF Head(text) \in SchemeTokens THEN ParseRemote(text, FALSE)
    ELSE [ParseError EXCEPT !.err = FALSE, !.type = "relative",
                            !.relativePath = text]

\* a parser that cleans the relative path it records
ParseReferenceCleaned(text) ==
    IF text = <<>> THEN ParseError
    ELSE IF IsSshLocator(text) THEN ParseRemote(SshToHttps(text), TRUE)
    ELSE IF Head(text) \in SchemeTokens THEN ParseRemote(text, TRUE)
    ELSE [ParseError EXCEPT !.err = FALSE, !.type = "relative",
                            !.relativePath = CleanRelative(text)]

\* empty string: error; SSH-style locator: its HTTPS form is parsed; http://
\* or https://: remote; anything else: relative, recorded verbatim
ParseReference(text) ==
    IF text = <<>> THEN ParseError
    ELSE IF IsSshLocator(text) THEN ParseRemote(SshToHttps(text), TRUE)
    ELSE IF Head(text) \in SchemeTokens THEN ParseRemote(text, TRUE)
    ELSE [ParseError EXCEPT !.err = FALSE, !.type = "relative",
                            !.relativePath = text]

\* "/" + segment, for each segment
RECURSIVE SlashEach(_)
SlashEach(segs) ==
    IF segs = <<>> THEN <<>> ELSE <<"/", Head(segs)>> \o SlashEach(Tail(segs))

\* the remote references handed to the parser, by their parts: the form
\* (double-slash or plain), the repository, the path inside it, a trailing
\* slash or none, and the value of ref=, a text, or none
RemoteOwners ==
    {[form |-> f, host |-> "github.com", owner |-> <<"o">>] : f \in {"double", "plain"}}
    \cup {[form |-> f, host |-> "gitlab.com", owner |-> <<"g">>] : f \in {"double", "plain"}}
    \cup {[form |-> "double", host |-> "gitlab.com", owner |-> <<"g", "sg">>]}

RefValues == {<<>>, <<"main">>, <<"x", "/", "y">>, <<"heads">>}

RemoteReferences ==
    {[form |-> o.form, host |-> o.host, owner |-> o.owner, repo |-> repo,
      path |-> path, slash |-> slash, ref |-> ref] :
        o \in RemoteOwners, repo \in {"r", "r.git"},
        path \in {<<"p">>, <<"p", "q">>}, slash \in BOOLEAN, ref \in RefValues}
    \cup {[form |-> "plain", host |-> o.host, owner |-> o.owner, repo |-> repo,
           path |-> <<>>, slash |-> FALSE, ref |-> ref] :
             o \in {x \in RemoteOwners : x.form = "plain"},
             repo \in {"r", "r.git"}, ref \in RefValues}

\* the same references written as SSH-style locators
\* (git@host:owner/repo//path?ref=R), for GitHub
SshReferences ==
    {[r EXCEPT !.form = "ssh"] :
        r \in {x \in RemoteReferences : x.form = "double" /\ x.host = "github.com"}}

\* the references that are neither URLs nor SSH-style locators: bare paths,
\* "./" and "../" prefixed paths, with a trailing slash, a doubled slash, an
\* absolute path, a repository written without its scheme
RelativeReferences ==
    {<<"base">>, <<"components", "/", "foo">>,
     <<".", "/", "base">>, <<"..", "/", "overlays", "/", "dev">>,
     <<".">>, <<"..">>, <<".", "/">>, <<"..", "/", "..", "/", "base">>,
     <<"base", "/">>, <<"a", "/", "/", "b">>, <<"a", "/", ".", "/", "b">>,
     <<"a", "/", "..", "/", "b">>, <<"/", "base">>, <<"deploy.yaml">>,
     <<"github.com", "/", "o", "/", "r", "/", "/", "p", "?ref=", "main">>,
     <<"base", "?ref=", "main">>, <<"r.git">>}

\* the string of a remote reference
FormatReference(r) ==
    (IF r.form = "ssh" THEN <<"git@", r.host, ":">> \o Tail(SlashEach(r.owner))
     ELSE <<"https://", r.host>> \o SlashEach(r.owner)) \o <<"/", r.repo>>
    \o (IF r.form \in {"double", "ssh"} THEN <<"/">> ELSE <<>>)
    \o SlashEach(r.path)
    \o (IF r.slash THEN <<"/">> ELSE <<>>)
    \o (IF r.ref = <<>> THEN <<>> ELSE <<"?ref=">> \o r.ref)

NoReference ==
    [text |-> <<>>, form |-> "none", host |-> "", owner |-> <<>>, repo |-> "",
     path |-> <<>>, slash |-> FALSE, ref |-> <<>>]

CallParseReference ==
    /\ ppc = "init"
    /\ parsed' = ParseReference(refInput.text)
    /\ ppc' = "done"
    /\ UNCHANGED refInput
    /\ UNCHANGED <<resolverVars, cycleVars, crawlVars, pathVars, urlVars, twoVars>>

NextParser == CallParseReference

(***************************************************************************)
(* The path and URL functions on their own                                 *)
(***************************************************************************)
NoPaths == [base |-> <<"">>, rel |-> <<"">>]

NoJoin == [joined |-> <<"">>, resolved |-> <<"">>]

\* the crawler's join and the builder's join applied to the same arguments
CallJoinAndResolve ==
    /\ jpc = "init"
    /\ pathOut' = [joined |-> joinPaths(pathIn.base, pathIn.rel),
                   resolved |-> resolvePath(pathIn.base, pathIn.rel)]
    /\ jpc' = "done"
    /\ UNCHANGED pathIn
    /\ UNCHANGED <<resolverVars, cycleVars, crawlVars, parserVars, urlVars, twoVars>>

NextPaths == CallJoinAndResolve

NoFile == RepoFile("none", "", "", "", <<"">>, <<"">>)

\* crawlKustomization called with the URL, up to its request: the URL is
\* normalized, the result is the cache key and the node's remoteUrl, and the
\* kustomization file of that locator is requested
CrawlUrl ==
    /\ upc = "init"
    /\ urlKey' = normalizeUrl(urlIn)
    /\ urlFile' = IF parseGitUrl(ensureKustomizationYaml(normalizeUrl(urlIn))).ok
                  THEN fetchFileContent(ensureKustomizationYaml(normalizeUrl(urlIn)))
                  ELSE NoFile
    /\ upc' = "once"
    /\ UNCHANGED urlIn
    /\ UNCHANGED <<resolverVars, cycleVars, crawlVars, parserVars, pathVars, twoVars>>

\* crawlKustomization called again, with the locator it had normalized
CrawlKeyAgain ==
    /\ upc = "once"
    /\ urlKey' = normalizeUrl(urlKey)
    /\ upc' = "twice"
    /\ UNCHANGED <<urlIn, urlFile>>
    /\ UNCHANGED <<resolverVars, cycleVars, crawlVars, parserVars, pathVars, twoVars>>

NextUrls ==
    \/ CrawlUrl
    \/ CrawlKeyAgain

(***************************************************************************)
(* Specifications                                                          *)
(*                                                                         *)
(* Spec is the crawl of an overlay followed by the build of its graph;     *)
(* SpecResolver applies the resolver to a list of names and a path;        *)
(* SpecCycles applies detectCycles to a graph; SpecBuild applies buildGraph *)
(* to a node list; SpecParser applies ParseReference to a reference.  The  *)
(* parts of the program that a specification does not run stay off.        *)
(***************************************************************************)
ResolverOff ==
    /\ branches = <<>> /\ urlPath = <<>> /\ listerErr = FALSE
    /\ rpc = "off" /\ rvia = "none" /\ rout = ResolveErr
    /\ testRefLister = "nil" /\ repoInfo = "github" /\ token = ""
    /\ tags = <<>> /\ apiErr = NoApiErr /\ handed = NotHanded

CyclesOff == cEdges = <<>> /\ cycles = <<>> /\ cpc = "off"

ParserOff == refInput = NoReference /\ parsed = ParseError /\ ppc = "off"

\* one crawl only
TwoOff == parked = NoCrawl /\ crawls = [active |-> 1, overlap |-> FALSE]

PathsOff == pathIn = NoPaths /\ pathOut = NoJoin /\ jpc = "off"

UrlsOff == urlIn = Undefined /\ urlKey = Undefined /\ urlFile = NoFile /\ upc = "off"

CrawlOff ==
    /\ crawlState = "off" /\ overlayUrl = Undefined /\ nodeCounter = 0
    /\ visited = <<>> /\ nodes = <<>> /\ objs = <<>> /\ stack = <<>>
    /\ pending = NoPending /\ fetchLog = <<>> /\ calls = <<>> /\ files = <<>>
    /\ refsUsed = 0 /\ graph = NoGraph /\ edgeCounter = 0 /\ typeBefore = <<>>
    /\ rebuilt = NoRebuild

Init ==
    /\ crawlState = "idle" /\ overlayUrl = Undefined /\ nodeCounter = 0
    /\ visited = <<>> /\ nodes = <<>> /\ objs = <<>> /\ stack = <<>>
    /\ pending = NoPending /\ fetchLog = <<>> /\ calls = <<>> /\ files = <<>>
    /\ refsUsed = 0 /\ graph = NoGraph /\ edgeCounter = 0 /\ typeBefore = <<>>
    /\ rebuilt = NoRebuild
    /\ ResolverOff /\ CyclesOff /\ ParserOff /\ PathsOff /\ UrlsOff /\ TwoOff

InitResolver ==
    /\ branches \in SeqsUpTo(SeqsUpTo(Chars, MaxNameLen), MaxBranches)
    /\ urlPath \in SeqsUpTo(Chars, MaxPathLen)
    /\ listerErr \in BOOLEAN
    /\ rpc = "init"
    /\ rvia = "none"
    /\ rout = ResolveErr
    /\ testRefLister = "set" /\ repoInfo = "github" /\ token = ""
    /\ tags = <<>> /\ apiErr = NoApiErr /\ handed = NotHanded
    /\ CyclesOff /\ CrawlOff /\ ParserOff /\ PathsOff /\ UrlsOff /\ TwoOff

SpecResolver == InitResolver /\ [][NextResolver]_vars

\* the names of branches and tags, and the paths, of the calls of
\* ResolveBranchAndPath with and without a RefLister
RefNames == {<<"a">>, <<"a", "/", "a">>}

RefPaths == {<<"a", "/", "a", "/", "a">>, <<"/", "a", "a">>, <<>>}

ApiErrs ==
    {[client |-> c, branchesAt |-> b, tags |-> t] :
        c \in BOOLEAN, b \in 0..2, t \in BOOLEAN}

InitResolveRefs ==
    /\ branches \in SeqsUpTo(RefNames, MaxRefNames)
    /\ tags \in SeqsUpTo(RefNames, MaxRefNames)
    /\ urlPath \in RefPaths
    /\ \/ testRefLister = "set" /\ listerErr \in BOOLEAN /\ apiErr = NoApiErr
       \/ testRefLister = "nil" /\ listerErr = FALSE /\ apiErr \in ApiErrs
    /\ repoInfo \in {"github", "gitlab", "other"}
    /\ token \in {"", "t"}
    /\ rpc = "init"
    /\ rvia = "none"
    /\ rout = ResolveErr
    /\ handed = NotHanded
    /\ CyclesOff /\ CrawlOff /\ ParserOff /\ PathsOff /\ UrlsOff /\ TwoOff

NextResolveRefs == CallResolveBranchAndPath

SpecResolveRefs == InitResolveRefs /\ [][NextResolveRefs]_vars

InitCycles ==
    /\ \E k \in 0..MaxGraphEdges : cEdges \in [1..k -> GraphEdge]
    /\ cycles = <<>>
    /\ cpc = "init"
    /\ ResolverOff /\ CrawlOff /\ ParserOff /\ PathsOff /\ UrlsOff /\ TwoOff

SpecCycles == InitCycles /\ [][NextCycles]_vars

InitParser ==
    /\ \/ \E r \in RemoteReferences \cup SshReferences :
             refInput = [text |-> FormatReference(r), form |-> r.form,
                          host |-> r.host, owner |-> r.owner, repo |-> r.repo,
                          path |-> r.path, slash |-> r.slash, ref |-> r.ref]
       \/ \E text \in RelativeReferences :
             refInput = [NoReference EXCEPT !.text = text, !.form = "relative"]
    /\ parsed = ParseError
    /\ ppc = "init"
    /\ ResolverOff /\ CyclesOff /\ CrawlOff /\ PathsOff /\ UrlsOff /\ TwoOff

SpecParser == InitParser /\ [][NextParser]_vars

Spec == Init /\ [][Next]_vars

InitBuild ==
    /\ crawlState = "given" /\ overlayUrl = Undefined /\ nodeCounter = 0
    /\ visited = <<>> /\ stack = <<>>
    /\ \E list \in NodeLists(MaxBuildRefs) :
          /\ objs = list
          /\ nodes = [i \in 1..Len(list) |-> i]
    /\ pending = NoPending /\ fetchLog = <<>> /\ calls = <<>> /\ files = <<>>
    /\ refsUsed = 0 /\ graph = NoGraph /\ edgeCounter = 0 /\ typeBefore = <<>>
    /\ rebuilt = NoRebuild
    /\ ResolverOff /\ CyclesOff /\ ParserOff /\ PathsOff /\ UrlsOff /\ TwoOff

NextBuild ==
    \/ BuildGraph
    \/ BuildGraphAgain

SpecBuild == InitBuild /\ [][NextBuild]_vars

\* two crawlFromOverlay calls on one GitCrawler
InitTwoCrawls ==
    /\ crawlState = "idle" /\ overlayUrl = Undefined /\ nodeCounter = 0
    /\ visited = <<>> /\ nodes = <<>> /\ objs = <<>> /\ stack = <<>>
    /\ pending = NoPending /\ fetchLog = <<>> /\ calls = <<>> /\ files = <<>>
    /\ refsUsed = 0 /\ graph = NoGraph /\ edgeCounter = 0 /\ typeBefore = <<>>
    /\ rebuilt = NoRebuild
    /\ parked = IdleCrawl /\ crawls = [active |-> 1, overlap |-> FALSE]
    /\ ResolverOff /\ CyclesOff /\ ParserOff /\ PathsOff /\ UrlsOff

SpecTwoCrawls == InitTwoCrawls /\ [][NextTwoCrawls]_vars

\* the segments of the paths handed to joinPaths and resolvePath, and the
\* paths: what split('/') returns, so at least one segment
PathSegs == {"a", "b", ".", "..", ""}

PathInputs == UNION {[1..k -> PathSegs] : k \in 1..MaxPathSegs}

InitPaths ==
    /\ pathIn \in [base : PathInputs, rel : PathInputs]
    /\ pathOut = NoJoin
    /\ jpc = "init"
    /\ ResolverOff /\ CyclesOff /\ CrawlOff /\ ParserOff /\ UrlsOff /\ TwoOff

SpecPaths == InitPaths /\ [][NextPaths]_vars

\* the URLs handed to crawlKustomization: a GitHub or GitLab repository,
\* the segments after it and a ref parameter or none
UrlSegs == {"-", "tree", "a", "b", ""}

UrlInputs ==
    {Str("https", <<host, "o", "r">> \o rest, q) :
        host \in {"github.com", "gitlab.com"},
        rest \in SeqsUpTo(UrlSegs, MaxUrlSegs),
        q \in {NoQuery, RawRef(<<"main">>)}}

InitUrls ==
    /\ urlIn \in UrlInputs
    /\ urlKey = Undefined
    /\ urlFile = NoFile
    /\ upc = "init"
    /\ ResolverOff /\ CyclesOff /\ CrawlOff /\ ParserOff /\ PathsOff /\ TwoOff

SpecUrls == InitUrls /\ [][NextUrls]_vars

(***************************************************************************)
(* Claims about the crawl and the build                                    *)
(***************************************************************************)
\* C1: within one crawl, no normalized locator is fetched twice or has two
\* nodes in the node list, and every crawlKustomization call that finds its
\* locator in the cache returns the node object the first call for that
\* locator created (loaded or error node) and leaves the node list as it was.
C1_OneNodeAndOneFetchPerLocator ==
    crawlState # "off" =>
        /\ \A i, j \in 1..Len(fetchLog) :
              fetchLog[i].url = fetchLog[j].url => i = j
        /\ \A i, j \in 1..Len(nodes) :
              objs[nodes[i]].remoteUrl = objs[nodes[j]].remoteUrl => i = j
        /\ \A k \in 1..Len(calls) :
              calls[k].hit =>
                  /\ calls[k].after = calls[k].before
                  /\ \E j \in 1..(k - 1) :
                        /\ ~calls[j].hit
                        /\ calls[j].url = calls[k].url
                        /\ calls[j].node = calls[k].node
                        /\ objs[calls[j].node].remoteUrl = calls[k].url
                        /\ \A h \in 1..(k - 1) :
                              (~calls[h].hit /\ calls[h].url = calls[k].url) => h = j

\* A later reference was answered from the cache with an error node, and
\* another with a loaded node.
C1_Witness ==
    /\ \E k \in 1..Len(calls) : calls[k].hit /\ objs[calls[k].node].error
    /\ \E k \in 1..Len(calls) : calls[k].hit /\ objs[calls[k].node].loaded

\* the repository file a node was read from
UnitOf(r) == fetchFileContent(ensureKustomizationYaml(objs[r].remoteUrl))

\* the entries of a loaded node that the crawl follows
Followed(r) ==
    {e \in Range(objs[r].content.resources) \cup Range(objs[r].content.bases) :
        ~isYamlFile(e)} \cup Range(objs[r].content.components)

\* C2 (as claimed, the part about the returned list): when the crawl returns,
\* every unit a listed node refers to has a node in the list, and no unit has
\* two.
C2_EachReachableUnitExactlyOnce ==
    crawlState = "done" =>
        /\ \A i \in 1..Len(nodes) :
              objs[nodes[i]].loaded =>
                  \A e \in Followed(nodes[i]) :
                      \E j \in 1..Len(nodes) :
                          objs[nodes[j]].remoteUrl =
                              normalizeUrl(resolveUrl(objs[nodes[i]].remoteUrl, e))
        /\ \A i, j \in 1..Len(nodes) :
              UnitOf(nodes[i]) = UnitOf(nodes[j]) => i = j

\* the ids of the nodes in the graph's node index
GraphNodeIds == {objs[graph.nodes[i].value].id : i \in 1..Len(graph.nodes)}

\* C6 (as claimed): the source and the target of every edge of a returned
\* graph are ids of nodes of the graph's node index.
C6_EdgeEndpointsInNodeIndex ==
    graph.status = "built" =>
        \A i \in 1..Len(graph.edges) :
            /\ graph.edges[i].source \in GraphNodeIds
            /\ graph.edges[i].target \in GraphNodeIds

\* the kinds of the edges of the graph that target the node
IncomingKinds(r) ==
    {graph.edges[i].type :
        i \in {j \in 1..Len(graph.edges) : graph.edges[j].target = objs[r].id}}

\* C7: after the type correction every node of the graph is a component if a
\* component edge targets it, else a base if a base edge targets it, else
\* what it was before the pass.
C7_TypeCorrectionPriority ==
    graph.status = "built" =>
        \A i \in 1..Len(graph.nodes) :
            LET r == graph.nodes[i].value
            IN  objs[r].type =
                    IF "component" \in IncomingKinds(r) THEN "component"
                    ELSE IF "base" \in IncomingKinds(r) THEN "base"
                    ELSE typeBefore[r]

\* A crawled node is targeted by a resource edge and a component edge, and
\* the pass changed it from resource to component.
C7_Witness ==
    /\ graph.status = "built"
    /\ \E i \in 1..Len(graph.nodes) :
          LET r == graph.nodes[i].value
          IN  /\ IncomingKinds(r) = {"resource", "component"}
              /\ typeBefore[r] = "resource"
              /\ objs[r].type = "component"

\* the kustomization of the root reference was not fetched, or not parsed to
\* a document
RootFailed ==
    /\ nodes # <<>>
    /\ (objs[nodes[1]].error \/ objs[nodes[1]].content.form = "null")

\* C11 (as claimed): when the kustomization of the root reference cannot be
\* fetched or parsed, crawlFromOverlay rejects and returns no node list.
C11_RootFailureRejects ==
    (crawlState \in {"done", "rejected"} /\ RootFailed) => crawlState = "rejected"

\* C12 (as claimed): a failure met on a reference other than the root never
\* makes crawlFromOverlay reject, and it is recorded as the error of the
\* target's node.
C12_OnlyRootFailureRejects ==
    /\ crawlState = "rejected" => RootFailed
    /\ \A i \in 2..Len(nodes) :
          objs[nodes[i]].content.form = "null" => objs[nodes[i]].error

\* the URL the crawler visits for entry e of the node r
EntryTarget(r, e) == normalizeUrl(resolveUrl(objs[r].remoteUrl, e))

\* the loaded nodes of the list whose document has its three lists
LoadedNodes ==
    {nodes[i] : i \in {j \in 1..Len(nodes) :
                          /\ objs[nodes[j]].loaded
                          /\ objs[nodes[j]].content.form = "doc"}}

\* the URLs that some loaded node declares under bases or components
DeclaredAsBaseOrComponent ==
    UNION {{EntryTarget(r, e) :
               e \in {b \in Range(objs[r].content.bases) : ~isYamlFile(b)}
                     \cup Range(objs[r].content.components)} :
           r \in LoadedNodes}

\* the URLs that are declared under resources only, the root excluded
DeclaredAsResourceOnly ==
    UNION {{EntryTarget(r, e) :
               e \in {x \in Range(objs[r].content.resources) : ~isYamlFile(x)}} :
           r \in LoadedNodes}
    \ (DeclaredAsBaseOrComponent \cup {objs[nodes[1]].remoteUrl})

\* C13 (as claimed): a target without a fetchable kustomization file gets no
\* node when it is declared under resources, and an error node when it is
\* declared under components or bases.
C13_NoNodeForMissingResourceTarget ==
    crawlState = "done" =>
        /\ \A i \in 1..Len(nodes) :
              objs[nodes[i]].remoteUrl \in DeclaredAsResourceOnly =>
                  ~objs[nodes[i]].error
        /\ \A u \in DeclaredAsBaseOrComponent :
              \E i \in 1..Len(nodes) : objs[nodes[i]].remoteUrl = u

\* C18 (as claimed): no two nodes of the list a crawl returns have the same
\* path, and every node of the list is in the node index of the graph built
\* from it.
C18_UniquePathsInNodeList ==
    /\ crawlState = "done" =>
          \A i, j \in 1..Len(nodes) :
              objs[nodes[i]].path = objs[nodes[j]].path => i = j
    /\ graph.status = "built" =>
          \A i \in 1..Len(nodes) :
              \E k \in 1..Len(graph.nodes) : graph.nodes[k].value = nodes[i]

\* the entry names a file ending in .yaml or .yml other than a kustomization
\* file
PlainYaml(e) ==
    EndsWithYamlExt(LastPart(e)) /\ LastPart(e) \notin KustomizationNames

\* the URLs that some loaded node declares under components
DeclaredAsComponent ==
    UNION {{EntryTarget(r, e) : e \in Range(objs[r].content.components)} :
           r \in LoadedNodes}

\* C14 (as claimed): a resources or bases entry that names a plain YAML file
\* causes no fetch and no node in the crawl and no node and no edge in the
\* graph, and one that names a kustomization file has its edge.
C14_PlainYamlEntriesSkipped ==
    /\ \A r \in LoadedNodes :
          \A e \in Range(objs[r].content.resources) \cup Range(objs[r].content.bases) :
              (PlainYaml(e) /\ EntryTarget(r, e) \notin DeclaredAsComponent) =>
                  /\ \A k \in 1..Len(fetchLog) : fetchLog[k].url # EntryTarget(r, e)
                  /\ \A i \in 1..Len(nodes) :
                        objs[nodes[i]].remoteUrl # EntryTarget(r, e)
    /\ graph.status = "built" =>
          /\ \A k \in 1..Len(graph.edges) :
                graph.edges[k].type \in {"resource", "base"} =>
                    ~PlainYaml(graph.edges[k].label)
          /\ \A k \in 1..Len(graph.nodes) :
                objs[graph.nodes[k].value].id.prefix = "missing" =>
                    ~PlainYaml(objs[graph.nodes[k].value].path)
          /\ \A r \in LoadedNodes :
                \A e \in Range(objs[r].content.resources)
                         \cup Range(objs[r].content.bases) :
                    LastPart(e) \in KustomizationNames =>
                        \E k \in 1..Len(graph.edges) :
                            /\ graph.edges[k].source = objs[r].id
                            /\ graph.edges[k].label = e

\* C15 (as claimed): every reference the crawler followed from a loaded node
\* to a node of the list has its edge from the source node to that node, and
\* no virtual remote node is made for a reference that was crawled.
C15_CrawledReferencesBecomeEdges ==
    graph.status = "built" =>
        /\ \A r \in LoadedNodes :
              \A e \in Followed(r) :
                  \A i \in 1..Len(nodes) :
                      objs[nodes[i]].remoteUrl = EntryTarget(r, e) =>
                          \E k \in 1..Len(graph.edges) :
                              /\ graph.edges[k].source = objs[r].id
                              /\ graph.edges[k].target = objs[nodes[i]].id
        /\ \A k \in 1..Len(graph.nodes) :
              objs[graph.nodes[k].value].id.prefix # "remote"

\* the kind of the entries of the list a reference is in; the root reference
\* has none and counts as a resource
KindOfList(list) ==
    CASE list = 2 -> "base"
      [] list = 3 -> "component"
      [] OTHER -> "resource"

\* C25 (as claimed): a node the crawler loaded has the kind of the reference
\* through which it was first discovered as its role: resource, base or
\* component, and resource for the root.
C25_RoleIsDiscoveringKind ==
    graph.status = "none" =>
        \A k \in 1..Len(calls) :
            (~calls[k].hit /\ objs[calls[k].node].loaded) =>
                objs[calls[k].node].type = KindOfList(calls[k].list)

\* the position of a node in the crawl's list
PosOf(r) == CHOOSE i \in 1..Len(nodes) : nodes[i] = r

\* the call that created the node
CreationOf(r) == CHOOSE k \in 1..Len(calls) : ~calls[k].hit /\ calls[k].node = r

\* a is the node through which r was first discovered, or the one through
\* which that node was, and so on
RECURSIVE DiscoveredThrough(_, _)
DiscoveredThrough(a, r) ==
    LET from == calls[CreationOf(r)].from
    IN  from # 0 /\ (from = a \/ DiscoveredThrough(a, from))

\* C26: the crawl's node list is in depth-first pre-order.  Its first node is
\* the root's; a node comes after the node it was first discovered through,
\* and every node between the two was discovered through that node as well;
\* of the nodes first discovered through one node, those of its resources
\* come before those of its bases, which come before those of its
\* components; and the root path of the graph built from the list is the
\* path of the crawl's root.
C26_DepthFirstPreOrder ==
    /\ crawlState \in {"fetch", "run", "done", "rejected"} =>
          /\ \A i \in 1..Len(nodes) :
                calls[CreationOf(nodes[i])].after = i
          /\ \A i \in 1..Len(nodes) :
                (calls[CreationOf(nodes[i])].from = 0) <=> (i = 1)
          /\ \A i \in 2..Len(nodes) :
                LET from == calls[CreationOf(nodes[i])].from
                IN  /\ PosOf(from) < i
                    /\ objs[from].loaded
                    /\ \A j \in (PosOf(from) + 1)..(i - 1) :
                          DiscoveredThrough(from, nodes[j])
          /\ \A i, j \in 2..Len(nodes) :
                LET ci == calls[CreationOf(nodes[i])]
                    cj == calls[CreationOf(nodes[j])]
                IN  (ci.from = cj.from /\ ci.list < cj.list) => i < j
    /\ (crawlState = "done" /\ graph.status = "built") =>
          /\ objs[nodes[1]].remoteUrl = normalizeUrl(overlayUrl)
          /\ graph.rootPath = objs[nodes[1]].path

\* The root has an entry under resources and one under bases, each gave a
\* node, the node of the first one is not at the root's path, and the graph
\* has been built.
C26_Witness ==
    /\ crawlState = "done" /\ graph.status = "built"
    /\ Len(nodes) = 3
    /\ calls[CreationOf(nodes[2])].from = nodes[1]
    /\ calls[CreationOf(nodes[2])].list = 1
    /\ calls[CreationOf(nodes[3])].from = nodes[1]
    /\ calls[CreationOf(nodes[3])].list = 2
    /\ objs[nodes[3]].path # objs[nodes[1]].path
    /\ graph.rootPath = objs[nodes[1]].path

\* C19 (as claimed): a node of the crawl's list or of a returned graph, the
\* virtual nodes included, has an error text exactly when it is not loaded;
\* a node with an error has the placeholder content and no
\* crawlKustomization call works through its entries.
C19_ErrorIffNotLoaded ==
    /\ \A i \in 1..Len(nodes) :
          /\ objs[nodes[i]].error <=> ~objs[nodes[i]].loaded
          /\ objs[nodes[i]].error => objs[nodes[i]].content = PlaceholderDoc
    /\ \A k \in 1..Len(stack) : ~objs[stack[k].node].error
    /\ graph.status = "built" =>
          \A k \in 1..Len(graph.nodes) :
              objs[graph.nodes[k].value].error <=> ~objs[graph.nodes[k].value].loaded

(***************************************************************************)
(* Claims about buildGraph on a given node list                            *)
(***************************************************************************)
RefsOfList(r, entries, kind) ==
    [i \in 1..Len(entries) |-> [source |-> r, entry |-> entries[i], kind |-> kind]]

\* the references of a node that buildGraph processes, in its order
RefsOfNode(r) ==
    RefsOfList(r, SelectSeq(objs[r].content.resources,
                            LAMBDA e : ~EndsWithYamlExt(LastPart(e))), "resource")
    \o RefsOfList(r, objs[r].content.bases, "base")
    \o RefsOfList(r, objs[r].content.components, "component")

RECURSIVE RefsFrom(_)
RefsFrom(i) == IF i > Len(nodes) THEN <<>> ELSE RefsOfNode(nodes[i]) \o RefsFrom(i + 1)

\* the references of the node list in the order of the build: the k-th one
\* is the reference that edge k was made for
RefsInOrder == RefsFrom(1)

\* the paths of the nodes handed to buildGraph
GivenPaths == {objs[nodes[i]].path : i \in 1..Len(nodes)}

\* the path at which a reference looks for its target, or puts its virtual
\* node
IndexPathOf(ref) ==
    IF isRemoteUrl(ref.entry) THEN extractDisplayNameFromUrl(ref.entry)
    ELSE RelPath(resolvePath(objs[ref.source].path.segs, ref.entry.segs))

\* the node object with this id
NodeOfId(id) == CHOOSE r \in 1..Len(objs) : objs[r].id = id

\* C16 (as claimed): a local reference whose resolved path has no node in the
\* index gets one virtual node at that path (not loaded, role base when it is
\* made, empty content, not remote) and an edge of its kind to it, without a
\* fetch; every later local reference that resolves to the same path gets its
\* edge to that same node, and there is one virtual node for the path.
C16_OneVirtualNodePerMissingPath ==
    graph.status = "built" =>
        LET refs == RefsInOrder
        IN  \A first \in 1..Len(refs) :
                LET P == IndexPathOf(refs[first])
                    t == NodeOfId(graph.edges[first].target)
                IN  (/\ isLocalPath(refs[first].entry)
                     /\ P \notin GivenPaths
                     /\ \A k \in 1..(first - 1) : IndexPathOf(refs[k]) # P) =>
                        /\ fetchLog = <<>>
                        /\ objs[t].id.prefix = "missing"
                        /\ objs[t].path = P
                        /\ ~objs[t].loaded /\ ~objs[t].isRemote
                        /\ typeBefore[t] = "base"
                        /\ objs[t].content = EmptyDoc
                        /\ MapHas(graph.nodes, P) /\ MapGet(graph.nodes, P) = t
                        /\ Cardinality({r \in 1..Len(objs) :
                               objs[r].id.prefix = "missing" /\ objs[r].path = P}) = 1
                        /\ \A k \in first..Len(refs) :
                              (isLocalPath(refs[k].entry) /\ IndexPathOf(refs[k]) = P) =>
                                  /\ graph.edges[k].target = graph.edges[first].target
                                  /\ graph.edges[k].type = refs[k].kind

\* the nodes of the graph's index that carry the remote URL
IndexedWithUrl(url) ==
    {graph.nodes[i].value :
        i \in {j \in 1..Len(graph.nodes) : objs[graph.nodes[j].value].remoteUrl = url}}

\* C17 (as claimed): the edge of a remote reference targets the node that
\* carries its URL when the list handed in has one; otherwise one virtual
\* remote node is made for the URL (not loaded, role component when the
\* reference that made it is a component, else base), every reference to the
\* URL gets its edge to that node, and the graph has one node for the URL.
C17_OneNodePerRemoteUrl ==
    graph.status = "built" =>
        LET refs == RefsInOrder
        IN  \A first \in 1..Len(refs) :
                LET url == refs[first].entry
                    t == NodeOfId(graph.edges[first].target)
                    given == {i \in 1..Len(nodes) : objs[nodes[i]].remoteUrl = url}
                IN  (/\ isRemoteUrl(url)
                     /\ \A k \in 1..(first - 1) : refs[k].entry # url) =>
                        /\ given # {} => \E i \in given : t = nodes[i]
                        /\ given = {} =>
                              /\ objs[t].id.prefix = "remote"
                              /\ ~objs[t].loaded
                              /\ typeBefore[t] = IF refs[first].kind = "component"
                                                 THEN "component" ELSE "base"
                        /\ objs[t].remoteUrl = url
                        /\ IndexedWithUrl(url) = {t}
                        /\ \A k \in first..Len(refs) :
                              refs[k].entry = url =>
                                  /\ graph.edges[k].target = graph.edges[first].target
                                  /\ graph.edges[k].type = refs[k].kind

\* the node index of a graph as its (path, id, role) triples, in order
NodeIndexTriples(nodeMap, objects) ==
    [i \in 1..Len(nodeMap) |->
        [key |-> nodeMap[i].key, id |-> objects[nodeMap[i].value].id,
         type |-> objects[nodeMap[i].value].type]]

\* C23 (as claimed): a second build on the same builder, from a node list
\* equal to the first one, returns a graph equal to the first: same node
\* index with the same ids and roles, same edges with the same ids.
C23_SecondBuildEqualsFirst ==
    rebuilt.status = "built" =>
        /\ rebuilt.edges = graph.edges
        /\ NodeIndexTriples(rebuilt.nodes, rebuilt.objs) = NodeIndexTriples(graph.nodes, objs)

(***************************************************************************)
\* owner, repo and path of the result are those the reference was written
\* from, the repo without its ".git"
PartsRecovered ==
    /\ ~parsed.err
    /\ parsed.type = "remote"
    /\ parsed.owner = refInput.owner
    /\ parsed.repo = StripDotGit(refInput.repo)
    /\ parsed.path = refInput.path

C21_RelativeRecordedVerbatim ==
    (ppc = "done" /\ refInput.form = "relative") =>
        /\ ~parsed.err
        /\ parsed.type = "relative"
        /\ parsed.relativePath = refInput.text

\* The reference "./", which a path cleaner would rewrite, has been parsed
\* and recorded as it is.
C21_Witness ==
    /\ ppc = "done"
    /\ refInput.form = "relative"
    /\ refInput.text = <<".", "/">>
    /\ parsed.type = "relative"
    /\ parsed.relativePath = <<".", "/">>

(***************************************************************************)
(* Claims about the path and URL functions                                 *)
(***************************************************************************)
\* C27 (as claimed): for every base path and every relative reference,
\* resolvePath returns the path that joinPaths returns.
C27_ResolvePathEqualsJoinPaths ==
    jpc = "done" => pathOut.resolved = pathOut.joined

\* the segments after /-/tree/ or /-/blob/ of a GitLab URL
TreeParts(url) == SubSeq(url.segs, 6, Len(url.segs))

\* C28 (as claimed): for a GitLab tree or blob URL without a ref parameter,
\* the branch of the locator the crawl makes, and of the file it requests,
\* is the first min(3, n) of the n segments after tree/ or blob/, and the
\* path is the rest.
C28_GitLabBranchIsLongestCandidate ==
    (/\ upc = "once"
     /\ IsGitLabTree(urlIn) /\ ~urlIn.q.has
     /\ \A i \in 1..Len(TreeParts(urlIn)) : TreeParts(urlIn)[i] # "") =>
        LET parts == TreeParts(urlIn)
            k == Min(3, Len(parts))
            branch == SubSeq(parts, 1, k)
            path == SubSeq(parts, k + 1, Len(parts))
            locator == parseGitUrl(urlKey)
        IN  /\ locator.ok
            /\ locator.ref = branch
            /\ locator.path = (IF path = <<>> THEN <<"">> ELSE path)
            /\ urlFile.ref = branch
            /\ urlFile.path = path \o <<"kustomization.yaml">>

\* C29 (as claimed): normalizeUrl applied to a locator it returned gives the
\* same locator, for every URL.
C29_NormalizeUrlIdempotent ==
    upc = "twice" => urlKey = normalizeUrl(urlIn)

(***************************************************************************)
(* Claims about the resolver                                               *)
(***************************************************************************)
Trimmed == TrimSlashes(urlPath)

Reorderings(bs) ==
    {[i \in 1..Len(bs) |-> bs[p[i]]] : p \in Permutations(1..Len(bs))}

\* C3: whenever findLongestMatch (directly, or through ResolveBranchAndPath
\* with a RefLister installed) succeeds, the returned branch is a member of
\* the list, is a prefix of the trimmed path, no strictly longer member is a
\* prefix of the trimmed path, and every reordering of the list gives the
\* same result.
C3_LongestMemberPrefix ==
    (rpc = "done" /\ ~rout.err) =>
        /\ rout.branch \in Range(branches)
        /\ HasPrefix(Trimmed, rout.branch)
        /\ \A b \in Range(branches) :
              HasPrefix(Trimmed, b) => Len(b) <= Len(rout.branch)
        /\ \A q \in Reorderings(branches) :
              findLongestMatch(q, urlPath) = rout

\* Two members of different length both prefix the path, the shorter one
\* comes last in the list, and the resolver (through the lister) returned
\* the longer.
C3_Witness ==
    /\ rpc = "done" /\ rvia = "resolve" /\ ~rout.err
    /\ Len(branches) = 2
    /\ HasPrefix(Trimmed, branches[1]) /\ HasPrefix(Trimmed, branches[2])
    /\ Len(branches[2]) > 0 /\ Len(branches[2]) < Len(branches[1])
    /\ branches[1][Len(branches[1])] # "/"
    /\ rout.branch = branches[1]
    /\ Trimmed # urlPath

\* C4 (as claimed): on success the trimmed input is the returned branch when
\* the returned path is empty, and branch + "/" + path otherwise.
C4_RemainderAtSegmentBoundary ==
    (rpc = "done" /\ ~rout.err) =>
        Trimmed = (IF rout.path = <<>>
                   THEN rout.branch
                   ELSE rout.branch \o <<"/">> \o rout.path)

\* C5 (as claimed): an error, with empty branch and path, exactly when no
\* member of the list is a prefix of the trimmed path.
C5_ErrorIffNoPrefixMember ==
    (rpc = "done" /\ rvia = "find") =>
        /\ rout.err <=> ~(\E b \in Range(branches) : HasPrefix(Trimmed, b))
        /\ rout.err => (rout.branch = <<>> /\ rout.path = <<>>)

\* C5 (amended): an error, with empty branch and path, exactly when no
\* non-empty member of the list is a prefix of the trimmed path (the empty
\* name prefixes every path and is never selected).
C5_ErrorIffNoNonEmptyPrefixMember ==
    (rpc = "done" /\ rvia = "find") =>
        /\ rout.err <=>
              ~(\E b \in Range(branches) : b # <<>> /\ HasPrefix(Trimmed, b))
        /\ rout.err => (rout.branch = <<>> /\ rout.path = <<>>)

\* findLongestMatch failed on a list of two non-empty names, neither a
\* prefix of the non-empty trimmed path.
C5_Witness ==
    /\ rpc = "done" /\ rvia = "find" /\ rout.err
    /\ Len(branches) = 2 /\ Trimmed # <<>>
    /\ \A b \in Range(branches) : b # <<>> /\ ~HasPrefix(Trimmed, b)

\* C22: with a RefLister installed, ResolveBranchAndPath returns the
\* lister's error as it is, with an empty branch and an empty path and
\* without a call of findLongestMatch, when the lister fails; otherwise it
\* returns findLongestMatch of the lister's list and the path, for every
\* repository type and token.
C22_ListerErrorOrLongestMatch ==
    (rpc = "done" /\ rvia = "resolve" /\ testRefLister = "set") =>
        IF listerErr
        THEN /\ rout = [branch |-> <<>>, path |-> <<>>, err |-> TRUE,
                        msg |-> ListerError]
             /\ ~handed.called
        ELSE /\ rout = findLongestMatch(branches, urlPath)
             /\ handed = [called |-> TRUE, names |-> branches]

\* The lister failed for a GitLab repository and a call with a token, on a
\* path that a name of the list prefixes.
C22_Witness ==
    /\ rpc = "done" /\ rvia = "resolve" /\ testRefLister = "set"
    /\ listerErr /\ repoInfo = "gitlab" /\ token = "t"
    /\ ~findLongestMatch(branches, urlPath).err
    /\ rout.err /\ rout.msg = ListerError

\* C24 (as claimed): without a RefLister and when no request of the listing
\* API fails, the names that the GitHub and GitLab resolvers hand to
\* findLongestMatch include every branch name and every tag name of the
\* repository.
C24_AllBranchAndTagNamesHanded ==
    (/\ rpc = "done" /\ rvia = "resolve" /\ testRefLister = "nil"
     /\ repoInfo \in {"github", "gitlab"} /\ apiErr = NoApiErr) =>
        /\ handed.called
        /\ Range(branches) \cup Range(tags) \subseteq Range(handed.names)

(***************************************************************************)
(* Claims about detectCycles                                               *)
(***************************************************************************)
EdgePairs == {<<cEdges[i].source, cEdges[i].target>> : i \in 1..Len(cEdges)}

Multiplicity(u, v) ==
    Cardinality({i \in 1..Len(cEdges) : cEdges[i] = [source |-> u, target |-> v]})

Succ(s, i) == s[(i % Len(s)) + 1]

\* Sequences of distinct nodes (written as an image so that the set is
\* enumerated once)
SimplePaths ==
    {t : t \in {s \in UNION {[1..k -> GraphNodes] : k \in 1..MaxGraphNodes} :
                   \A i, j \in 1..Len(s) : i # j => s[i] # s[j]}}

\* ... that start at their smallest node
CanonicalPaths == {t : t \in {s \in SimplePaths : \A i \in 1..Len(s) : s[1] <= s[i]}}

\* The edges an elementary cycle through s needs: each node to the next,
\* and the last back to the first.
CycleEdges == [s \in SimplePaths |-> {<<s[i], Succ(s, i)>> : i \in 1..Len(s)}]

\* s is an elementary cycle of the graph with edge pairs E
IsCycle(E, s) == CycleEdges[s] \subseteq E

\* One representative per elementary cycle of the graph: the rotation that
\* starts at its smallest node.
CanonicalCycles(E) == {s \in CanonicalPaths : IsCycle(E, s)}

Rotations(s) ==
    {[i \in 1..Len(s) |-> s[((i + r - 1) % Len(s)) + 1]] : r \in 0..(Len(s) - 1)}

C9_EveryElementaryCycleReported ==
    cpc = "done" =>
        LET E == EdgePairs IN
        \A s \in CanonicalCycles(E) :
            \E r \in Rotations(s) : Append(r, r[1]) \in Range(cycles)

\* C9 (amended): every elementary cycle has an edge that closes a returned
\* list: the last two entries of some returned list are consecutive nodes of
\* the cycle.
C9_EveryCycleHasAReportedClosingEdge ==
    cpc = "done" =>
        LET closing == {<<cycles[k][Len(cycles[k]) - 1], cycles[k][Len(cycles[k])]>> :
                          k \in {j \in 1..Len(cycles) : Len(cycles[j]) >= 2}}
            E == EdgePairs
        IN  \A s \in CanonicalCycles(E) : CycleEdges[s] \cap closing # {}

\* Two elementary cycles share a node, detectCycles reported only one list,
\* and the other cycle is represented by its closing edge alone.
C9_Witness ==
    /\ cpc = "done"
    /\ Cardinality(CanonicalCycles(EdgePairs)) = 2
    /\ Len(cycles) = 1
    /\ \E s \in CanonicalCycles(EdgePairs) :
          \A r \in Rotations(s) : Append(r, r[1]) \notin Range(cycles)

\* C10: every returned list has at least two entries, starts and ends with
\* the same node, and without its last entry is an elementary cycle of the
\* graph (consecutive entries joined by an edge, the last back to the first,
\* no node twice); a self-loop on A is reported as <<A, A>>.
C10_ReportedListsAreElementaryCycles ==
    cpc = "done" =>
        LET E == EdgePairs IN
        /\ \A k \in 1..Len(cycles) :
              LET c == cycles[k] IN
              /\ Len(c) >= 2
              /\ c[1] = c[Len(c)]
              /\ SubSeq(c, 1, Len(c) - 1) \in SimplePaths
              /\ IsCycle(E, SubSeq(c, 1, Len(c) - 1))
        /\ \A a \in GraphNodes :
              <<a, a>> \in E => <<a, a>> \in Range(cycles)

\* detectCycles reported a self-loop and a longer cycle.
C10_Witness ==
    /\ cpc = "done"
    /\ \E k \in 1..Len(cycles) : Len(cycles[k]) = 2
    /\ \E k \in 1..Len(cycles) : Len(cycles[k]) = 4

\* ------------------------------------------------------------------
\* Claims about two crawls on one GitCrawler
\* ------------------------------------------------------------------

\* the node lists that crawlFromOverlay calls have returned, each with the
\* number of its call
ReturnedLists ==
    (IF crawlState = "done"
     THEN {[crawl |-> crawls.active, nodes |-> nodes]} ELSE {})
    \cup
    (IF parked.crawlState = "done"
     THEN {[crawl |-> 3 - crawls.active, nodes |-> parked.nodes]} ELSE {})

\* C30: two crawlFromOverlay calls on one GitCrawler, one after the other
\* or with their awaits interleaved, each return the list they return when
\* run alone: the ids of a returned list count from node-0 in the order of
\* the list, no two of its nodes have the same locator, and every node
\* that one of the crawl's crawlKustomization calls returned is in it.
C30_EachCrawlAsIfAlone ==
    \A r \in ReturnedLists :
        /\ \A i \in 1..Len(r.nodes) : objs[r.nodes[i]].id.n = i - 1
        /\ \A i, j \in 1..Len(r.nodes) :
              objs[r.nodes[i]].remoteUrl = objs[r.nodes[j]].remoteUrl => i = j
        /\ \A k \in 1..Len(calls) :
              calls[k].crawl = r.crawl => calls[k].node \in Range(r.nodes)

=============================================================================
